---------------------------- MODULE Spec2Model ----------------------------
(***************************************************************************)
(* A model of the greatws WebSocket engine: one connection (Conn), the     *)
(* reactor thread that serves it (EventLoop.apiPoll), user threads that    *)
(* call Close / WriteMessage / Write, and the goroutines the engine        *)
(* starts itself (go closeInner, go closeAndWaitOnMessage).                *)
(*                                                                         *)
(* Source files: src/unnamed/part_000 (conn), src/unnamed/part_001         *)
(* (epoll backend), src/unnamed/part_002 (MultiEventLoop),                 *)
(* src/api_iouring.go (io_uring backend), src/client.go (Dial).            *)
(*                                                                         *)
(* Specifications:                                                         *)
(*   Spec          user threads, reactor and goroutines, a few frames      *)
(*   SpecClose     nothing but Close calls                                 *)
(*   SpecDispatch  the reactor alone, every kind of frame and              *)
(*                 configuration                                           *)
(*   SpecParser    readHeader and the parse loop over byte streams cut     *)
(*                 into chunks                                             *)
(*   SpecPool      connections added to and deleted from MultiEventLoop    *)
(*   SpecDial      one DialOption.Dial                                     *)
(*   SpecLength    readHeader over 64-bit payload lengths                  *)
(*   SpecWrite     Conn.Write, conn.Write and flushOrClose                 *)
(*   SpecFlush     buffered writes, write readiness and background closes  *)
(*   SpecPoll      apiPoll over a batch of events, epoll and io_uring      *)
(*   SpecAdd       MultiEventLoop.add beside the reactor                   *)
(*   SpecRead      the read loop of processWebsocketFrame                  *)
(*   SpecHandshake DialConf and Dial on one DialOption                     *)
(*   SpecUring     WriteFrameOnlyIoUring                                   *)
(***************************************************************************)
EXTENDS Integers, Sequences, FiniteSets, TLC

(***************************************************************************)
(* Bounds of the model.                                                    *)
(***************************************************************************)
\* user threads calling into the connection concurrently
MaxUsers == 2
\* operations each user thread may start
MaxUserOps == 1
\* goroutines the engine may have running at the same time
MaxGo == 2
\* readiness events the reactor handles
MaxEvents == 3
\* complete frames rbuf may hold before the dispatcher takes them
MaxBatch == 1
\* bytes a write(2) may take before it stops short (besides taking everything)
MaxShort == 1
\* number of reactors of the MultiEventLoop (numLoops)
NumLoops == 2
\* the descriptor number of the connection
ConnFd == 5
\* connections a MultiEventLoop registers over time
MaxConns == 2
\* teardowns of one connection that may run at the same time
MaxClosers == 2

(***************************************************************************)
(* Program constants.                                                      *)
(***************************************************************************)
maxControlFrameSize == 125

Continuation == 0
Text == 1
Binary == 2
Close == 8
Ping == 9
Pong == 10

NormalClosure == 1000
ProtocolError == 1002

\* a stored (uncompressed) deflate block: the one compressed form the model uses
StoredBlock == 1

VARIABLES
    cfg,                   \* *Config: decompression, compression, replyPing, ignorePong, utf8Check
    fd,                    \* Conn.fd (-1 after close)
    closed,                \* Conn.closed (0 / 1)
    closeOnce,             \* Conn.closeOnce has run
    parent,                \* Conn.parent is set
    wbuf,                  \* Conn.wbuf
    fragmentFrameHeader,   \* conn.fragmentFrameHeader
    fragmentFramePayload,  \* conn.fragmentFramePayload
    inbox,                 \* complete frames in rbuf that were not dispatched yet
    conns,                 \* EventLoop.conns of every reactor: index -> set of fds
    fdOpen,                \* the kernel still has the connection's descriptor open
    epollOut,              \* the descriptor is registered with EPOLLOUT
    mu,                    \* Conn.mu: the thread holding it
    pc,                    \* where every thread is
    cont,                  \* what the reactor does when its inline Close returns
    panic,                 \* the runtime panic the process died of, or "none"
    nEvents,               \* events handled so far
    opsLeft,               \* operations every user thread may still start
    onClose,               \* OnClose invocations so far, by the function that made them
    lastCalls,             \* the callbacks made by the latest step that made or could make any
    lastWrite,             \* the latest write: opcode, payload, error, bytes the kernel took
    lastErr,               \* what the latest processCallback returned
    wireMsg,               \* data frames of the message in progress, as sent by the peer
    clean,                 \* every processCallback so far returned nil
    rbuf,                  \* conn.rbuf: the bytes read so far
    ri,                    \* conn.ri: the read index
    curState,              \* conn.curState
    haveSize,              \* conn.haveSize
    rh,                    \* conn.rh: the header being decoded
    emitted,               \* the frames the parser handed on, in order
    feed,                  \* the bytes of the peer's stream that were not read yet
    sent,                  \* the frames the peer's stream is made of
    loops,                 \* MultiEventLoop.loops[i].conns: index -> fd -> connection
    poolConn,              \* the connections of the pool: made, Conn.fd, del called
    kfd,                   \* the descriptors the kernel has open for the pool
    closer,                \* where every teardown of a pool connection is
    dpc,                   \* where DialOption.Dial is
    derr,                  \* Dial's named result err
    dc,                    \* Dial's named result c
    dconn,                 \* Dial's local conn is not nil
    sock,                  \* the TCP socket of the dial: "none", "open", "closed"
    defers,                \* the functions Dial deferred, in the order of the defers
    dcfg,                  \* DialOption.Config: decompression, compression
    offered,               \* the request carries Sec-WebSocket-Extensions (strExtensions)
    rsp,                   \* the response http.ReadResponse returned
    cause,                 \* why every thread is tearing the connection down
    closeArg,              \* the error closeInner gave OnClose, "none" before the call
    given,                 \* the bytes passed to Write so far, in call order
    kernelOut,             \* the bytes the kernel accepted from unix.Write, in order
    backend,               \* the poll backend of the event loop: "epoll", "io_uring"
    batch,                 \* the events / completions the current poll returned
    pi,                    \* the loop index i of apiPoll / run
    handled,               \* the events of the batch whose handler ran
    pollRet,               \* the error apiPoll returned, "none" while it runs
    ppc,                   \* where the event loop is: "none", "idle", "events"
    nPolls,                \* poll iterations so far
    readArmed,                 \* the fds registered with the backend for read
    apc,                   \* where MultiEventLoop.add is for every connection
    rcap,                  \* len(*c.rbuf): the size of the read buffer
    Header,                \* DialOption.Header: the values of every header name
    scheme,                \* DialOption.u.Scheme
    req,                   \* the header of the request handshake returned
    secWebSocket,          \* the key handshake returned
    hres,                  \* what validateRsp returned for the last request
    hcalls,                \* the calls of DialConf and Dial so far
    wSeq,                  \* Conn.wSeq
    stateM,                \* onlyIoUringState.m: the buffer pending under every seq
    puts,                  \* how often every buffer went back to the pool
    uerr,                  \* what the last WriteFrameOnlyIoUring returned
    wcalls                 \* the calls of WriteFrameOnlyIoUring so far

vars == <<cfg, fd, closed, closeOnce, parent, wbuf, fragmentFrameHeader,
          fragmentFramePayload, inbox, conns, fdOpen, epollOut, mu, pc, cont,
          panic, nEvents, opsLeft, onClose, lastCalls, lastWrite, lastErr,
          wireMsg, clean, rbuf, ri, curState, haveSize, rh, emitted, feed, sent,
          loops, poolConn, kfd, closer,
          dpc, derr, dc, dconn, sock, defers, dcfg, offered, rsp,
          cause, closeArg, given, kernelOut,
          backend, batch, pi, handled, pollRet, ppc, nPolls, readArmed, apc,
          rcap, Header, scheme, req, secWebSocket, hres, hcalls,
          wSeq, stateM, puts, uerr, wcalls>>

poolVars == <<loops, poolConn, kfd, closer>>
dialVars == <<dpc, derr, dc, dconn, sock, defers, dcfg, offered, rsp>>
parserVars == <<rbuf, ri, curState, haveSize, rh, emitted, feed, sent>>
causeVars == <<cause, closeArg>>
streamVars == <<given, kernelOut>>
pollVars == <<backend, batch, pi, handled, pollRet, ppc, nPolls>>
addVars == <<readArmed, apc>>
hsVars == <<Header, scheme, req, secWebSocket, hres, hcalls>>
uringVars == <<wSeq, stateM, puts, uerr, wcalls>>
extraVars == <<streamVars, pollVars, addVars, rcap, hsVars, uringVars>>
restVars == <<dialVars, poolVars, parserVars, extraVars>>
sideVars == <<restVars, causeVars>>
connVars == <<fd, closed, closeOnce, parent, conns, fdOpen>>
fragVars == <<fragmentFrameHeader, fragmentFramePayload>>
ghostVars == <<lastCalls, lastErr, wireMsg, clean>>

\* the process died of a runtime panic
panicked == panic # "none"

(***************************************************************************)
(* Threads.                                                                *)
(***************************************************************************)
Reactor == <<"reactor", 0>>
Users == {<<"user", i>> : i \in 1..MaxUsers}
Gos == {<<"go", i>> : i \in 1..MaxGo}
Threads == {Reactor} \cup Users \cup Gos
NoThread == <<"none", 0>>

\* Go's remainder takes the sign of the dividend
GoMod(a, n) == IF a >= 0 THEN a % n ELSE 0 - ((0 - a) % n)

NoHeader == [set |-> FALSE, opcode |-> 0, rsv1 |-> FALSE]
NoFrameHeader == [PayloadLen |-> 0, Opcode |-> 0, MaskKey |-> 0, Mask |-> FALSE,
                  head |-> 0]
NoWrite == [op |-> 0 - 1, payload |-> <<>>, err |-> "none", n |-> 0]

(***************************************************************************)
(* Pure helpers.                                                           *)
(***************************************************************************)
IsCont(b) == b >= 128 /\ b <= 191

\* utf8.Valid: well-formed UTF-8 of one to four bytes per code point
RECURSIVE Utf8Valid(_)
Utf8Valid(s) ==
    IF s = <<>> THEN TRUE
    ELSE LET b == s[1] n == Len(s) IN
         IF b < 128 THEN Utf8Valid(SubSeq(s, 2, n))
         ELSE IF b >= 194 /\ b <= 223
              THEN n >= 2 /\ IsCont(s[2]) /\ Utf8Valid(SubSeq(s, 3, n))
         ELSE IF b >= 224 /\ b <= 239
              THEN /\ n >= 3
                   /\ IsCont(s[2])
                   /\ (b = 224 => s[2] >= 160)
                   /\ (b = 237 => s[2] <= 159)
                   /\ IsCont(s[3])
                   /\ Utf8Valid(SubSeq(s, 4, n))
         ELSE IF b >= 240 /\ b <= 244
              THEN /\ n >= 4
                   /\ IsCont(s[2])
                   /\ (b = 240 => s[2] >= 144)
                   /\ (b = 244 => s[2] <= 143)
                   /\ IsCont(s[3]) /\ IsCont(s[4])
                   /\ Utf8Valid(SubSeq(s, 5, n))
         ELSE FALSE

\* c.utf8Check: utf8.Valid when the check is enabled, else everything passes
utf8Check(s) == cfg.utf8Check => Utf8Valid(s)

\* decode: inflate without context takeover. The model knows the empty stream
\* and stored blocks (a block header, then the bytes as they are).
decodeOk(p) == p = <<>> \/ p[1] = StoredBlock
decode(p) == IF p = <<>> THEN <<>> ELSE SubSeq(p, 2, Len(p))

\* opcode.Opcode.IsControl: bit 3 of the opcode
IsControl(op) == (op \div 8) % 2 = 1

failRsv1(op) ==
    IF ~cfg.decompression THEN TRUE
    ELSE IF op # Text /\ op # Binary THEN TRUE
    ELSE FALSE

\* the status codes RFC 6455 allows on the wire
validCode(code) ==
    \/ code = 1000
    \/ code >= 1001 /\ code <= 1003
    \/ code >= 1007 /\ code <= 1011
    \/ code >= 3000 /\ code <= 4999

\* binary.BigEndian.Uint16
Uint16BE(p) == p[1] * 256 + p[2]
statusCodeToBytes(code) == <<code \div 256, code % 256>>

\* frame.WriteFrame for the server role (no mask), fin = 1
EncodeFrame(op, rsv1, payload) ==
    LET b0 == 128 + (IF rsv1 THEN 64 ELSE 0) + op
        n == Len(payload)
    IN IF n <= 125 THEN <<b0, n>> \o payload
       ELSE <<b0, 126, n \div 256, n % 256>> \o payload

OnMessageCall(op, payload) ==
    [cb |-> "OnMessage", op |-> op, payload |-> payload, err |-> "nil"]
OnCloseCall(err) ==
    [cb |-> "OnClose", op |-> 0 - 1, payload |-> <<>>, err |-> err]
HeaderOf(f) == [set |-> TRUE, opcode |-> f.opcode, rsv1 |-> f.rsv1]

(***************************************************************************)
(* The write path.  Every operator gives the set of results the kernel     *)
(* allows: err, the new wbuf, the bytes the kernel took, whether EPOLLOUT  *)
(* is armed, the goroutine started, and whether the call panicked.         *)
(***************************************************************************)
WriteResult(err, w, n, armed, spawn, panics) ==
    [err |-> err, wbuf |-> w, n |-> n, epOut |-> armed,
     spawn |-> spawn, panic |-> panics]

FdUsable == fd # 0 - 1 /\ fdOpen

\* the byte counts a write(2) of n bytes may stop at
ShortOf(n) == {k \in 0..(n - 1) : k <= MaxShort}

\* conn.Write: one write(2) of wbuf + b
connWrite(b) ==
    LET merged == Len(wbuf) > 0
        bb == IF merged THEN wbuf \o b ELSE b
        w1 == IF merged THEN wbuf \o b ELSE wbuf
    IN IF ~FdUsable
       THEN {WriteResult("EBADF", w1, 0, epollOut, "none", FALSE)}
       ELSE {WriteResult("nil", w1, n, epollOut, "none", FALSE) :
                n \in (ShortOf(Len(bb)) \ {0}) \cup {Len(bb)}}
            \cup
            \* EAGAIN / EINTR: n = -1, and copy(newBuf, b[n:]) panics
            {WriteResult("EAGAIN", w1, 0, epollOut, "none", TRUE)}
            \cup
            {WriteResult("EPIPE", w1, 0, epollOut, "none", FALSE)}

\* Conn.writeOrAddPoll(b), with c.wbuf = w when it is called: k bytes go out in
\* the loop's successful writes, then the loop ends
writeOrAddPoll(b, w) ==
    IF ~FdUsable
    THEN IF Len(b) = 0
         THEN {WriteResult("nil", <<>>, 0, epollOut, "none", FALSE)}
         ELSE {WriteResult("EBADF", w, 0, epollOut, "closeInner", FALSE)}
    ELSE \* everything written: len(c.wbuf) == total clears the buffer
         {WriteResult("nil", IF Len(w) = Len(b) THEN <<>> ELSE w,
                      Len(b), epollOut, "none", FALSE)}
         \cup
         \* EAGAIN / EINTR after k bytes: keep the rest, arm EPOLLOUT
         {WriteResult("nil", SubSeq(b, k + 1, Len(b)), k, TRUE, "none", FALSE) :
             k \in ShortOf(Len(b))}
         \cup
         \* any other error after k bytes: go c.closeInner(true, err)
         {WriteResult("EPIPE", w, k, epollOut, "closeInner", FALSE) :
             k \in ShortOf(Len(b))}

\* Conn.Write
ConnWrite(b) ==
    IF Len(wbuf) > 0 THEN writeOrAddPoll(wbuf \o b, wbuf \o b)
    ELSE writeOrAddPoll(b, wbuf)

\* Conn.flushOrClose (the caller holds no lock; it takes c.mu itself)
flushOrClose == writeOrAddPoll(wbuf, wbuf)

\* Conn.WriteMessage after its closed check, for a Close / Ping / Pong / Binary
\* frame or a Text frame that passed utf8Check: lock, frame.WriteFrame, unlock
WriteMessageLocked(op, payload) ==
    LET rsv1 == cfg.compression /\ (op = Text \/ op = Binary)
        data == IF rsv1 THEN <<StoredBlock>> \o payload ELSE payload
    IN connWrite(EncodeFrame(op, rsv1, data))

\* Conn.WriteMessage as one call
WriteMessage(op, payload) ==
    IF closed = 1
    THEN {WriteResult("ErrClosed", wbuf, 0, epollOut, "none", FALSE)}
    ELSE IF op = Text /\ ~utf8Check(payload)
    THEN {WriteResult("ErrTextNotUTF8", wbuf, 0, epollOut, "none", FALSE)}
    ELSE WriteMessageLocked(op, payload)

(***************************************************************************)
(* The dispatcher.  processCallback(f, werr) is what Conn.processCallback  *)
(* does with frame f when the WriteMessage it makes (it makes at most one) *)
(* returns werr: the new fragment state, the callbacks in order, the       *)
(* WriteMessage asked for, the error returned, and whether c.Close() was   *)
(* called before the callbacks.                                            *)
(***************************************************************************)
Outcome(h, p, calls, wop, wdata, err, closeCall) ==
    [fragH |-> h, fragP |-> p, calls |-> calls, wop |-> wop, wdata |-> wdata,
     err |-> err, closeCall |-> closeCall, deferred |-> FALSE]

\* no write, fragment state kept
Plain(calls, err) ==
    Outcome(fragmentFrameHeader, fragmentFramePayload, calls, 0 - 1, <<>>, err, FALSE)

\* Conn.writeErrAndOnClose: the deferred OnClose runs whatever the write returns
writeErrAndOnClose(code, userErr, werr) ==
    [Outcome(fragmentFrameHeader, fragmentFramePayload, <<OnCloseCall(userErr)>>,
             Close, statusCodeToBytes(code),
             IF werr # "nil" THEN werr ELSE userErr, FALSE)
        EXCEPT !.deferred = TRUE]

\* the callers that drop writeErrAndOnClose's result and return their own error
writeErrAndOnCloseThen(code, userErr) ==
    [writeErrAndOnClose(code, userErr, "nil") EXCEPT !.err = userErr]

\* processContinuation with a slip: the fragment replaces what was gathered
\* instead of being appended to it
processContinuationKeepsLast(f) ==
    IF f.opcode = Continuation
    THEN LET p == f.payload
             inflate == fragmentFrameHeader.rsv1 /\ cfg.decompression
             q == IF inflate THEN decode(p) ELSE p
         IN IF ~f.fin
            THEN Outcome(fragmentFrameHeader, p, <<>>, 0 - 1, <<>>, "nil", FALSE)
            ELSE IF inflate /\ ~decodeOk(p)
            THEN Outcome(fragmentFrameHeader, p, <<>>, 0 - 1, <<>>, "ErrDecode", FALSE)
            ELSE IF fragmentFrameHeader.opcode = Text /\ ~utf8Check(q)
            THEN Outcome(fragmentFrameHeader, q, <<OnCloseCall("ErrTextNotUTF8")>>,
                         0 - 1, <<>>, "ErrTextNotUTF8", FALSE)
            ELSE Outcome(NoHeader, <<>>,
                         <<OnMessageCall(fragmentFrameHeader.opcode, q)>>,
                         0 - 1, <<>>, "nil", FALSE)
    ELSE writeErrAndOnCloseThen(ProtocolError, "ErrFrameOpcode")

\* lines 216-246: a non-control frame while a fragmented message is in progress
processContinuation(f) ==
    IF f.opcode = Continuation
    THEN LET p == fragmentFramePayload \o f.payload
             inflate == fragmentFrameHeader.rsv1 /\ cfg.decompression
             q == IF inflate THEN decode(p) ELSE p
         IN IF ~f.fin
            THEN Outcome(fragmentFrameHeader, p, <<>>, 0 - 1, <<>>, "nil", FALSE)
            ELSE IF inflate /\ ~decodeOk(p)
            THEN Outcome(fragmentFrameHeader, p, <<>>, 0 - 1, <<>>, "ErrDecode", FALSE)
            ELSE IF fragmentFrameHeader.opcode = Text /\ ~utf8Check(q)
            THEN Outcome(fragmentFrameHeader, q, <<OnCloseCall("ErrTextNotUTF8")>>,
                         0 - 1, <<>>, "ErrTextNotUTF8", FALSE)
            ELSE Outcome(NoHeader, <<>>,
                         <<OnMessageCall(fragmentFrameHeader.opcode, q)>>,
                         0 - 1, <<>>, "nil", FALSE)
    ELSE writeErrAndOnCloseThen(ProtocolError, "ErrFrameOpcode")

\* lines 248-280: a Text or Binary frame with no fragmented message in progress
processData(f) ==
    IF ~f.fin
    THEN Outcome(HeaderOf(f),
                 IF Len(fragmentFramePayload) = 0 THEN f.payload
                 ELSE fragmentFramePayload,
                 <<>>, 0 - 1, <<>>, "nil", FALSE)
    ELSE LET inflate == f.rsv1 /\ cfg.decompression
             q == IF inflate THEN decode(f.payload) ELSE f.payload
         IN IF inflate /\ ~decodeOk(f.payload)
            THEN Plain(<<>>, "ErrDecode")
            ELSE IF f.opcode = Text /\ ~utf8Check(q)
            THEN [Plain(<<OnCloseCall("ErrTextNotUTF8")>>, "ErrTextNotUTF8")
                     EXCEPT !.closeCall = TRUE]
            ELSE Plain(<<OnMessageCall(f.opcode, q)>>, "nil")

\* lines 294-320: a Close frame
processClose(f, werr) ==
    IF Len(f.payload) = 0
    THEN writeErrAndOnClose(NormalClosure, "ErrClosePayloadTooSmall", werr)
    ELSE IF Len(f.payload) < 2
    THEN writeErrAndOnClose(ProtocolError, "ErrClosePayloadTooSmall", werr)
    ELSE IF ~utf8Check(SubSeq(f.payload, 3, Len(f.payload)))
    THEN writeErrAndOnClose(ProtocolError, "ErrTextNotUTF8", werr)
    ELSE IF ~validCode(Uint16BE(f.payload))
    THEN writeErrAndOnClose(ProtocolError, "ErrCloseValue", werr)
    ELSE IF werr # "nil"
    THEN Outcome(fragmentFrameHeader, fragmentFramePayload, <<>>,
                 Close, f.payload, werr, FALSE)
    ELSE Outcome(fragmentFrameHeader, fragmentFramePayload,
                 <<OnCloseCall("CloseErrMsg")>>, Close, f.payload,
                 "CloseErrMsg", FALSE)

\* processControl with a slip: the fin check comes before the size check
processControlFinFirst(f, werr) ==
    IF ~f.fin
    THEN writeErrAndOnCloseThen(ProtocolError, "ErrNOTBeFragmented")
    ELSE IF Len(f.payload) > maxControlFrameSize
    THEN writeErrAndOnCloseThen(ProtocolError, "ErrMaxControlFrameSize")
    ELSE IF f.opcode = Close
    THEN processClose(f, werr)
    ELSE IF f.opcode = Ping /\ cfg.replyPing
    THEN Outcome(fragmentFrameHeader, fragmentFramePayload,
                 IF werr # "nil" THEN <<OnCloseCall(werr)>>
                 ELSE <<OnMessageCall(f.opcode, f.payload)>>,
                 Pong, f.payload, werr, FALSE)
    ELSE IF f.opcode = Pong /\ cfg.ignorePong
    THEN Plain(<<>>, "nil")
    ELSE Plain(<<OnMessageCall(f.opcode, <<>>)>>, "nil")

\* lines 282-340: Close, Ping, Pong
processControl(f, werr) ==
    IF Len(f.payload) > maxControlFrameSize
    THEN writeErrAndOnCloseThen(ProtocolError, "ErrMaxControlFrameSize")
    ELSE IF ~f.fin
    THEN writeErrAndOnCloseThen(ProtocolError, "ErrNOTBeFragmented")
    ELSE IF f.opcode = Close
    THEN processClose(f, werr)
    ELSE IF f.opcode = Ping /\ cfg.replyPing
    THEN Outcome(fragmentFrameHeader, fragmentFramePayload,
                 IF werr # "nil" THEN <<OnCloseCall(werr)>>
                 ELSE <<OnMessageCall(f.opcode, f.payload)>>,
                 Pong, f.payload, werr, FALSE)
    ELSE IF f.opcode = Pong /\ cfg.ignorePong
    THEN Plain(<<>>, "nil")
    ELSE Plain(<<OnMessageCall(f.opcode, <<>>)>>, "nil")

\* processCallback with a slip: during a fragmented message only Continuation
\* frames are taken as part of it, and a new Text or Binary frame is handled as
\* a message of its own
processCallbackNewMessage(f, werr) ==
    LET op == IF fragmentFrameHeader.set THEN fragmentFrameHeader.opcode
              ELSE f.opcode
    IN IF (f.rsv1 /\ failRsv1(op)) \/ f.rsv2 \/ f.rsv3
       THEN writeErrAndOnClose(ProtocolError, "ErrRsv123", werr)
       ELSE IF fragmentFrameHeader.set /\ f.opcode = Continuation
       THEN processContinuation(f)
       ELSE IF f.opcode = Text \/ f.opcode = Binary
       THEN processData(f)
       ELSE IF f.opcode = Close \/ f.opcode = Ping \/ f.opcode = Pong
       THEN processControl(f, werr)
       ELSE writeErrAndOnCloseThen(ProtocolError, "ErrOpcode")

\* Conn.processCallback
processCallback(f, werr) ==
    LET op == IF fragmentFrameHeader.set THEN fragmentFrameHeader.opcode
              ELSE f.opcode
    IN IF (f.rsv1 /\ failRsv1(op)) \/ f.rsv2 \/ f.rsv3
       THEN writeErrAndOnClose(ProtocolError, "ErrRsv123", werr)
       ELSE IF fragmentFrameHeader.set /\ ~IsControl(f.opcode)
       THEN processContinuation(f)
       ELSE IF f.opcode = Text \/ f.opcode = Binary
       THEN processData(f)
       ELSE IF f.opcode = Close \/ f.opcode = Ping \/ f.opcode = Pong
       THEN processControl(f, werr)
       ELSE writeErrAndOnCloseThen(ProtocolError, "ErrOpcode")

(***************************************************************************)
(* Inputs: the frames the peer sends, what user threads write, the         *)
(* configurations.                                                         *)
(***************************************************************************)
Frame(fin, rsv1, rsv2, rsv3, op, payload) ==
    [fin |-> fin, rsv1 |-> rsv1, rsv2 |-> rsv2, rsv3 |-> rsv3,
     opcode |-> op, payload |-> payload]

\* one byte more than a control frame may carry
BigPayload == [i \in 1..(maxControlFrameSize + 1) |-> 97]

\* the frames of the concurrent specification: a message, a text that is not
\* UTF-8 (the dispatcher calls Close itself), an unknown opcode
FewFrames ==
    {Frame(TRUE, FALSE, FALSE, FALSE, Text, <<97>>),
     Frame(TRUE, FALSE, FALSE, FALSE, Text, <<195>>),
     Frame(TRUE, FALSE, FALSE, FALSE, 3, <<>>)}

\* payloads of data frames: empty, "a", the two bytes of U+00E9 apart, a stored
\* block holding "a"
DataPayloads == {<<>>, <<97>>, <<195>>, <<169>>, <<StoredBlock, 97>>}

\* payloads of Close frames: empty, one byte, code 1000, code 5, code 1000 with
\* a reason that is not UTF-8, oversized
ClosePayloads == {<<>>, <<97>>, <<3, 232>>, <<0, 5>>, <<3, 232, 195>>, BigPayload}

\* payloads of Ping and Pong frames
PingPayloads == {<<>>, <<97>>, BigPayload}

\* the frames of the dispatcher specification
RichFrames ==
    {Frame(fin, rsv1, FALSE, FALSE, op, p) :
        fin \in BOOLEAN, rsv1 \in BOOLEAN,
        op \in {Continuation, Text, Binary}, p \in DataPayloads}
    \cup {Frame(fin, FALSE, FALSE, FALSE, Close, p) :
             fin \in BOOLEAN, p \in ClosePayloads}
    \cup {Frame(fin, FALSE, FALSE, FALSE, op, p) :
             fin \in BOOLEAN, op \in {Ping, Pong}, p \in PingPayloads}
    \cup {Frame(TRUE, FALSE, FALSE, FALSE, 3, <<>>),
          Frame(TRUE, FALSE, TRUE, FALSE, Text, <<97>>),
          Frame(TRUE, FALSE, FALSE, TRUE, Ping, <<>>),
          Frame(FALSE, TRUE, FALSE, FALSE, Pong, <<>>),
          Frame(TRUE, TRUE, FALSE, FALSE, Ping, <<97>>)}

UserMsgs == {[op |-> Binary, payload |-> <<98>>]}
UserBufs == {<<98, 99>>}

Config(d, c, r, i, u) ==
    [decompression |-> d, compression |-> c, replyPing |-> r,
     ignorePong |-> i, utf8Check |-> u]

FewConfigs == {Config(FALSE, FALSE, TRUE, FALSE, TRUE)}
RichConfigs == {Config(d, FALSE, r, i, u) :
                   d \in BOOLEAN, r \in BOOLEAN, i \in BOOLEAN, u \in BOOLEAN}

NoOnClose == [closeInner |-> 0, processWebsocketFrame |-> 0, processCallback |-> 0]
OnCloseCount ==
    onClose.closeInner + onClose.processWebsocketFrame + onClose.processCallback

(***************************************************************************)
(* The pool and the dial before anything happened.                         *)
(***************************************************************************)
\* math.MaxUint16, where wSeq wraps, scaled down
SeqWrap == 4
MaxWrites == 6

\* the values wSeq takes, and the buffers of the calls
Seqs == 0..(SeqWrap - 1)
Bufs == 1..MaxWrites

\* the header names handshake adds
HeaderNames ==
    {"Upgrade", "Connection", "Sec-WebSocket-Key", "Sec-WebSocket-Version",
     "Sec-WebSocket-Extensions"}

\* make(http.Header): no value under any name
EmptyHeader == [h \in HeaderNames |-> <<>>]

\* the size newConn gives rbuf (conf.initPayloadSize())
InitCap == 4

PoolConns == 1..MaxConns
PoolFds == {ConnFd - 1, ConnFd}
Teardowns == PoolConns \X (1..MaxClosers)

\* an empty MultiEventLoop (CreateMultiEventLoop): no connection made, no entry
\* in any map (0 stands for no entry / nil)
InitPool ==
    /\ loops = [i \in 0..(NumLoops - 1) |-> [f \in PoolFds |-> 0]]
    /\ poolConn = [c \in PoolConns |-> [made |-> FALSE, fd |-> 0, deleted |-> FALSE]]
    /\ kfd = [f \in PoolFds |-> FALSE]
    /\ closer = [k \in Teardowns |-> "none"]

NoRsp == [StatusCode |-> 0, Upgrade |-> FALSE, Connection |-> FALSE,
          Accept |-> FALSE, Extensions |-> <<>>]

\* no Dial under way
NoDial ==
    /\ dpc = "none"
    /\ derr = "nil"
    /\ dc = "nil"
    /\ dconn = FALSE
    /\ sock = "none"
    /\ defers = <<>>
    /\ dcfg = [decompression |-> FALSE, compression |-> FALSE]
    /\ offered = FALSE
    /\ rsp = NoRsp

(***************************************************************************)
(* The state after newConn and MultiEventLoop.add.                         *)
(***************************************************************************)
InitConn(configs) ==
    /\ cfg \in configs
    /\ fd = ConnFd
    /\ closed = 0
    /\ closeOnce = FALSE
    /\ parent = TRUE
    /\ wbuf = <<>>
    /\ fragmentFrameHeader = NoHeader
    /\ fragmentFramePayload = <<>>
    /\ inbox = <<>>
    /\ conns = [i \in 0..(NumLoops - 1) |->
                   IF i = ConnFd % NumLoops THEN {ConnFd} ELSE {}]
    /\ fdOpen = TRUE
    /\ epollOut = FALSE
    /\ mu = NoThread
    /\ pc = [t \in Threads |-> IF t \in Gos THEN "free" ELSE "idle"]
    /\ cont = "idle"
    /\ panic = "none"
    /\ nEvents = 0
    /\ opsLeft = [t \in Users |-> MaxUserOps]
    /\ onClose = NoOnClose
    /\ lastCalls = <<>>
    /\ lastWrite = NoWrite
    /\ lastErr = "none"
    /\ wireMsg = <<>>
    /\ clean = TRUE
    /\ rbuf = <<>>
    /\ ri = 0
    /\ curState = "frameStateHeaderStart"
    /\ haveSize = 0
    /\ rh = NoFrameHeader
    /\ emitted = <<>>
    /\ cause = [t \in Threads |-> "none"]
    /\ closeArg = "none"
    /\ given = <<>>
    /\ kernelOut = <<>>
    /\ backend = "none"
    /\ batch = <<>>
    /\ pi = 0
    /\ handled = {}
    /\ pollRet = "none"
    /\ ppc = "none"
    /\ nPolls = 0
    /\ readArmed = {}
    /\ apc = [c \in PoolConns |-> "none"]
    /\ rcap = InitCap
    /\ Header = EmptyHeader
    /\ scheme = "none"
    /\ req = EmptyHeader
    /\ secWebSocket = 0
    /\ hres = "none"
    /\ hcalls = 0
    /\ wSeq = 0
    /\ stateM = [s \in Seqs |-> 0]
    /\ puts = [b \in Bufs |-> 0]
    /\ uerr = "none"
    /\ wcalls = 0
    /\ InitPool

Init ==
    /\ InitConn(FewConfigs)
    /\ NoDial
    /\ feed = <<>>
    /\ sent = <<>>

(***************************************************************************)
(* Goroutines: `go f()` takes the first free slot.                         *)
(***************************************************************************)
FreeGos == {g \in Gos : pc[g] = "free"}
CanSpawn == FreeGos # {}
FirstFree == CHOOSE g \in FreeGos : \A h \in FreeGos : g[2] <= h[2]

\* pc after thread t did `go f()`, f starting at `at`, and went on to `next`
Spawned(t, next, at) == [pc EXCEPT ![t] = next, ![FirstFree] = at]

\* where thread t is after its closeAndWaitOnMessage / closeInner returned
ReturnTo(t) ==
    IF t \in Gos THEN "free"
    ELSE IF t = Reactor /\ cont = "utf8" THEN "after_close"
    ELSE "idle"

(***************************************************************************)
(* The close path, one step per statement that other threads can observe.  *)
(***************************************************************************)
\* Conn.closeAndWaitOnMessage up to c.mu.Lock(): the closed check
closeAndWaitOnMessage(t) ==
    /\ ~panicked
    /\ pc[t] = "cw_check"
    /\ pc' = [pc EXCEPT ![t] = IF closed = 1 THEN ReturnTo(t) ELSE "cw_lock"]
    /\ cont' = IF closed = 1 /\ t = Reactor THEN "idle" ELSE cont
    /\ cause' = IF closed = 1 THEN [cause EXCEPT ![t] = "none"] ELSE cause
    /\ UNCHANGED <<restVars, closeArg, cfg, connVars, wbuf, fragVars, inbox, epollOut, mu, panic,
                   nEvents, opsLeft, onClose, lastWrite, ghostVars>>

\* c.mu.Lock() in closeAndWaitOnMessage
closeLock(t) ==
    /\ ~panicked
    /\ pc[t] = "cw_lock"
    /\ mu = NoThread
    /\ mu' = t
    /\ pc' = [pc EXCEPT ![t] = "ci_del"]
    /\ UNCHANGED <<sideVars, cfg, connVars, wbuf, fragVars, inbox, epollOut, cont, panic,
                   nEvents, opsLeft, onClose, lastWrite, ghostVars>>

\* MultiEventLoop.del: m.loops[fd % numLoops] with Go's remainder
delIndex == GoMod(fd, NumLoops)

\* c.multiEventLoop.del(c) in closeInner
closeInnerDel(t) ==
    /\ ~panicked
    /\ pc[t] = "ci_del"
    /\ IF delIndex < 0
       THEN \* index out of range
            /\ panic' = "index out of range"
            /\ UNCHANGED <<conns, fdOpen, pc>>
       ELSE /\ conns' = [conns EXCEPT ![delIndex] = @ \ {fd}]
            /\ fdOpen' = IF fd = ConnFd THEN FALSE ELSE fdOpen
            /\ pc' = [pc EXCEPT ![t] = "ci_fd"]
            /\ UNCHANGED panic
    /\ UNCHANGED <<sideVars, cfg, fd, closed, closeOnce, parent, wbuf, fragVars, inbox,
                   epollOut, mu, cont, nEvents, opsLeft, onClose, lastWrite,
                   ghostVars>>

\* atomic.StoreInt64(&c.fd, -1)
closeInnerFd(t) ==
    /\ ~panicked
    /\ pc[t] = "ci_fd"
    /\ fd' = 0 - 1
    /\ pc' = [pc EXCEPT ![t] = "ci_once"]
    /\ UNCHANGED <<sideVars, cfg, closed, closeOnce, parent, conns, fdOpen, wbuf, fragVars,
                   inbox, epollOut, mu, cont, panic, nEvents, opsLeft, onClose,
                   lastWrite, ghostVars>>

\* the err argument a teardown started for cause k carries: Close() passes nil
\* (line 576), the background closes pass the error they saw (624, 680)
errOf(k) == IF k \in {"Close", "hangup", "ErrTextNotUTF8"} THEN "nil" ELSE k

\* line 556: c.OnClose(c, nil), whatever closeInner's err argument is
closeInnerOnCloseArg(err) == "nil"

\* c.closeOnce.Do(func() { ... }), up to c.OnClose(c, nil): the first caller
\* runs the function, a later one waits until it returned and goes on
closeInnerOnce(t) ==
    /\ ~panicked
    /\ pc[t] = "ci_once"
    /\ IF closeOnce
       THEN /\ \A u \in Threads : pc[u] # "ci_parent"
            /\ pc' = [pc EXCEPT ![t] = "ci_closed"]
            /\ UNCHANGED <<closeOnce, onClose, closeArg>>
       ELSE /\ closeOnce' = TRUE
            /\ onClose' = [onClose EXCEPT !.closeInner = @ + 1]
            /\ closeArg' = closeInnerOnCloseArg(errOf(cause[t]))
            /\ pc' = [pc EXCEPT ![t] = "ci_parent"]
    /\ UNCHANGED <<restVars, cause, cfg, fd, closed, parent, conns, fdOpen, wbuf, fragVars,
                   inbox, epollOut, mu, cont, panic, nEvents, opsLeft, lastWrite,
                   ghostVars>>

\* the rest of the function closeOnce runs: atomic.StorePointer(&c.parent, nil)
closeInnerParent(t) ==
    /\ ~panicked
    /\ pc[t] = "ci_parent"
    /\ parent' = FALSE
    /\ pc' = [pc EXCEPT ![t] = "ci_closed"]
    /\ UNCHANGED <<sideVars, cfg, fd, closed, closeOnce, conns, fdOpen, wbuf, fragVars,
                   inbox, epollOut, mu, cont, panic, nEvents, opsLeft, onClose,
                   lastWrite, ghostVars>>

\* atomic.StoreInt32(&c.closed, 1), then the return (and c.mu.Unlock() when the
\* caller is closeAndWaitOnMessage)
closeInnerClosed(t) ==
    /\ ~panicked
    /\ pc[t] = "ci_closed"
    /\ closed' = 1
    /\ mu' = IF mu = t THEN NoThread ELSE mu
    /\ pc' = [pc EXCEPT ![t] = ReturnTo(t)]
    /\ cont' = IF t = Reactor THEN "idle" ELSE cont
    /\ cause' = [cause EXCEPT ![t] = "none"]
    /\ UNCHANGED <<restVars, closeArg, cfg, fd, closeOnce, parent, conns, fdOpen, wbuf, fragVars,
                   inbox, epollOut, panic, nEvents, opsLeft, onClose,
                   lastWrite, ghostVars>>

(***************************************************************************)
(* User threads.                                                           *)
(***************************************************************************)
\* a user thread calls Conn.Close
UserClose(t) ==
    /\ ~panicked
    /\ pc[t] = "idle"
    /\ opsLeft[t] > 0
    /\ opsLeft' = [opsLeft EXCEPT ![t] = @ - 1]
    /\ pc' = [pc EXCEPT ![t] = "cw_check"]
    /\ cause' = [cause EXCEPT ![t] = "Close"]
    /\ UNCHANGED <<restVars, closeArg, cfg, connVars, wbuf, fragVars, inbox, epollOut, mu,
                   cont, panic, nEvents, onClose, lastWrite, ghostVars>>

\* what a write leaves behind: buffer, registration, goroutine, panic
ApplyWrite(t, r, next) ==
    /\ r.spawn # "none" => CanSpawn
    /\ wbuf' = r.wbuf
    /\ epollOut' = r.epOut
    /\ panic' = IF r.panic THEN "slice bounds out of range" ELSE panic
    /\ pc' = IF r.panic THEN pc
             ELSE IF r.spawn # "none" THEN Spawned(t, next, "ci_del")
             ELSE [pc EXCEPT ![t] = next]
    /\ cause' = IF ~r.panic /\ r.spawn # "none"
                THEN [cause EXCEPT ![FirstFree] = r.err]
                ELSE cause

\* a user thread calls Conn.WriteMessage: the closed check and the UTF-8 check
UserWriteMessage(t) ==
    /\ ~panicked
    /\ pc[t] = "idle"
    /\ opsLeft[t] > 0
    /\ opsLeft' = [opsLeft EXCEPT ![t] = @ - 1]
    /\ \E m \in UserMsgs :
          IF closed = 1 \/ (m.op = Text /\ ~utf8Check(m.payload))
          THEN /\ \E r \in WriteMessage(m.op, m.payload) :
                     lastWrite' = [op |-> m.op, payload |-> m.payload,
                                   err |-> r.err, n |-> r.n]
               /\ UNCHANGED pc
          ELSE /\ pc' = [pc EXCEPT ![t] = "wm_lock"]
               /\ UNCHANGED lastWrite
    /\ UNCHANGED <<sideVars, cfg, connVars, wbuf, fragVars, inbox, epollOut, mu, cont,
                   panic, nEvents, onClose, ghostVars>>

\* c.mu.Lock(); frame.WriteFrame(&fw, &c.conn, ...); c.mu.Unlock()
WriteMessageWrite(t) ==
    /\ ~panicked
    /\ pc[t] = "wm_lock"
    /\ mu = NoThread
    /\ \E m \in UserMsgs : \E r \in WriteMessageLocked(m.op, m.payload) :
          /\ ApplyWrite(t, r, "idle")
          /\ lastWrite' = [op |-> m.op, payload |-> m.payload,
                           err |-> r.err, n |-> r.n]
    /\ UNCHANGED <<restVars, closeArg, cfg, connVars, fragVars, inbox, mu, cont, nEvents,
                   opsLeft, onClose, ghostVars>>

\* a user thread calls Conn.Write
UserWrite(t) ==
    /\ ~panicked
    /\ pc[t] = "idle"
    /\ opsLeft[t] > 0
    /\ opsLeft' = [opsLeft EXCEPT ![t] = @ - 1]
    /\ \E b \in UserBufs : \E r \in ConnWrite(b) : ApplyWrite(t, r, "idle")
    /\ UNCHANGED <<restVars, closeArg, cfg, connVars, fragVars, inbox, mu, cont, nEvents, onClose,
                   lastWrite, ghostVars>>

(***************************************************************************)
(* The reactor: EventLoop.apiPoll takes one event of the connection and    *)
(* handles it.                                                             *)
(***************************************************************************)
\* MultiEventLoop.getConn(ev.Fd) finds the connection
getConn == ConnFd \in conns[ConnFd % NumLoops]

EventReady ==
    /\ ~panicked
    /\ pc[Reactor] = "idle"
    /\ nEvents < MaxEvents

\* conn == nil: unix.Close(ev.Fd); continue
StaleEvent ==
    /\ EventReady
    /\ ~getConn
    /\ nEvents' = nEvents + 1
    /\ fdOpen' = FALSE
    /\ UNCHANGED <<sideVars, cfg, fd, closed, closeOnce, parent, conns, wbuf, fragVars,
                   inbox, epollOut, mu, pc, cont, panic, opsLeft, onClose,
                   lastWrite, ghostVars>>

\* EPOLLIN, and unix.Read fails with an error that is not EAGAIN / EINTR:
\* processWebsocketFrame returns it and apiPoll drops it
ReadError ==
    /\ EventReady
    /\ getConn
    /\ nEvents' = nEvents + 1
    /\ UNCHANGED <<sideVars, cfg, connVars, wbuf, fragVars, inbox, epollOut, mu, pc, cont,
                   panic, opsLeft, onClose, lastWrite, ghostVars>>

\* EPOLLIN, and unix.Read returns 0: go closeAndWaitOnMessage(true, io.EOF),
\* then OnClose(c, io.EOF) on the reactor itself
ReadEOF ==
    /\ EventReady
    /\ getConn
    /\ FdUsable
    /\ CanSpawn
    /\ nEvents' = nEvents + 1
    /\ pc' = Spawned(Reactor, "idle", "cw_check")
    /\ cause' = [cause EXCEPT ![FirstFree] = "EOF"]
    /\ onClose' = [onClose EXCEPT !.processWebsocketFrame = @ + 1]
    /\ UNCHANGED <<restVars, closeArg, cfg, connVars, wbuf, fragVars, inbox, epollOut, mu, cont,
                   panic, opsLeft, lastWrite, ghostVars>>

\* unix.Read never returned 0: the peer may still send
PeerSending == onClose.processWebsocketFrame = 0

\* EPOLLIN, and unix.Read fills rbuf with complete frames until EAGAIN; the
\* parse loop starts
ReadData(frames) ==
    /\ EventReady
    /\ getConn
    /\ FdUsable
    /\ PeerSending
    /\ nEvents' = nEvents + 1
    /\ \E n \in 1..(MaxBatch - Len(inbox)) : \E fs \in [1..n -> frames] :
          inbox' = inbox \o fs
    /\ pc' = [pc EXCEPT ![Reactor] = "dispatch"]
    /\ UNCHANGED <<sideVars, cfg, connVars, wbuf, fragVars, epollOut, mu, cont, panic,
                   opsLeft, onClose, lastWrite, ghostVars>>

\* the parse loop finds no complete frame: return 0, nil
ParseDone ==
    /\ ~panicked
    /\ pc[Reactor] = "dispatch"
    /\ inbox = <<>>
    /\ pc' = [pc EXCEPT ![Reactor] = "idle"]
    /\ UNCHANGED <<sideVars, cfg, connVars, wbuf, fragVars, inbox, epollOut, mu, cont,
                   panic, nEvents, opsLeft, onClose, lastWrite, ghostVars>>

NumOnClose(calls) == Cardinality({i \in DOMAIN calls : calls[i].cb = "OnClose"})

\* the data frames of the message the peer is sending, after frame f
WireAfter(f) ==
    IF IsControl(f.opcode) \/ f.opcode \notin {Continuation, Text, Binary}
    THEN wireMsg
    ELSE IF wireMsg = <<>>
    THEN IF f.opcode # Continuation /\ ~f.fin THEN <<f>> ELSE <<>>
    ELSE IF f.opcode # Continuation THEN wireMsg
    ELSE IF f.fin THEN <<>> ELSE Append(wireMsg, f)

NoWriteResult == WriteResult("nil", wbuf, 0, epollOut, "none", FALSE)

\* the results of the WriteMessage processCallback makes for frame f, if any
DispatchWrites(f) ==
    LET o == processCallback(f, "nil")
    IN IF o.wop < 0 THEN {NoWriteResult} ELSE WriteMessage(o.wop, o.wdata)

\* the state after processCallback(f) with outcome o and write result r. A
\* panic in the write still runs the deferred OnClose of writeErrAndOnClose.
Dispatched(f, o, r) ==
    LET calls == IF o.closeCall THEN <<>>
                 ELSE IF r.panic THEN (IF o.deferred THEN o.calls ELSE <<>>)
                 ELSE o.calls
    IN /\ fragmentFrameHeader' = o.fragH
       /\ fragmentFramePayload' = o.fragP
       /\ wbuf' = r.wbuf
       /\ epollOut' = r.epOut
       /\ panic' = IF r.panic THEN "slice bounds out of range" ELSE panic
       /\ lastCalls' = calls
       /\ onClose' = [onClose EXCEPT !.processCallback = @ + NumOnClose(calls)]
       /\ lastWrite' = IF o.wop < 0 THEN lastWrite
                       ELSE [op |-> o.wop, payload |-> o.wdata,
                             err |-> r.err, n |-> r.n]
       /\ lastErr' = IF r.panic THEN "panic" ELSE o.err
       /\ wireMsg' = WireAfter(f)
       /\ clean' = (clean /\ o.err = "nil" /\ ~r.panic)
       /\ inbox' = Tail(inbox)
       /\ pc' = IF r.panic THEN pc
                ELSE IF o.closeCall THEN [pc EXCEPT ![Reactor] = "cw_check"]
                ELSE IF o.err # "nil" THEN [pc EXCEPT ![Reactor] = "idle"]
                ELSE pc
       /\ cont' = IF o.closeCall /\ ~r.panic THEN "utf8" ELSE cont
       /\ cause' = IF o.closeCall /\ ~r.panic
                   THEN [cause EXCEPT ![Reactor] = "ErrTextNotUTF8"]
                   ELSE cause

\* the parse loop hands the next frame of rbuf to processCallback
Dispatch ==
    /\ ~panicked
    /\ pc[Reactor] = "dispatch"
    /\ inbox # <<>>
    /\ LET f == Head(inbox)
       IN \E r \in DispatchWrites(f) :
             /\ (processCallback(f, "nil").wop >= 0 /\ closed = 0) => mu = NoThread
             /\ Dispatched(f, processCallback(f, r.err), r)
    /\ UNCHANGED <<restVars, closeArg, cfg, connVars, mu, nEvents, opsLeft>>

\* processCallback, lines 273-274: Close() returned; OnClose, return the error
AfterInlineClose ==
    /\ ~panicked
    /\ pc[Reactor] = "after_close"
    /\ onClose' = [onClose EXCEPT !.processCallback = @ + 1]
    /\ lastCalls' = <<OnCloseCall("ErrTextNotUTF8")>>
    /\ pc' = [pc EXCEPT ![Reactor] = "idle"]
    /\ UNCHANGED <<sideVars, cfg, connVars, wbuf, fragVars, inbox, epollOut, mu, cont,
                   panic, nEvents, opsLeft, lastWrite, lastErr, wireMsg, clean>>

\* EPOLLOUT: conn.flushOrClose()
Flush ==
    /\ EventReady
    /\ getConn
    /\ epollOut
    /\ mu = NoThread
    /\ nEvents' = nEvents + 1
    /\ \E r \in flushOrClose : ApplyWrite(Reactor, r, "idle")
    /\ UNCHANGED <<restVars, closeArg, cfg, connVars, fragVars, inbox, mu, cont, opsLeft, onClose,
                   lastWrite, ghostVars>>

\* EPOLLERR / EPOLLHUP / EPOLLRDHUP: conn.Close()
Hangup ==
    /\ EventReady
    /\ getConn
    /\ nEvents' = nEvents + 1
    /\ pc' = [pc EXCEPT ![Reactor] = "cw_check"]
    /\ cont' = "idle"
    /\ cause' = [cause EXCEPT ![Reactor] = "hangup"]
    /\ UNCHANGED <<restVars, closeArg, cfg, connVars, wbuf, fragVars, inbox, epollOut, mu, panic,
                   opsLeft, onClose, lastWrite, ghostVars>>

(***************************************************************************)
(* Spec: user threads, the reactor and the engine's goroutines together.   *)
(***************************************************************************)
Next ==
    \/ \E t \in Users : UserClose(t)
    \/ \E t \in Users : UserWriteMessage(t)
    \/ \E t \in Users : WriteMessageWrite(t)
    \/ \E t \in Users : UserWrite(t)
    \/ \E t \in Threads : closeAndWaitOnMessage(t)
    \/ \E t \in Threads : closeLock(t)
    \/ \E t \in Threads : closeInnerDel(t)
    \/ \E t \in Threads : closeInnerFd(t)
    \/ \E t \in Threads : closeInnerOnce(t)
    \/ \E t \in Threads : closeInnerParent(t)
    \/ \E t \in Threads : closeInnerClosed(t)
    \/ StaleEvent
    \/ ReadError
    \/ ReadEOF
    \/ ReadData(FewFrames)
    \/ ParseDone
    \/ Dispatch
    \/ AfterInlineClose
    \/ Flush
    \/ Hangup

Spec == Init /\ [][Next]_vars

(***************************************************************************)
(* SpecDispatch: the reactor alone, fed every kind of frame under every    *)
(* configuration.                                                          *)
(***************************************************************************)
InitDispatch ==
    /\ InitConn(RichConfigs)
    /\ NoDial
    /\ feed = <<>>
    /\ sent = <<>>

NextDispatch ==
    \/ ReadData(RichFrames)
    \/ ParseDone
    \/ Dispatch
    \/ closeAndWaitOnMessage(Reactor)
    \/ closeLock(Reactor)
    \/ closeInnerDel(Reactor)
    \/ closeInnerFd(Reactor)
    \/ closeInnerOnce(Reactor)
    \/ closeInnerParent(Reactor)
    \/ closeInnerClosed(Reactor)
    \/ AfterInlineClose

SpecDispatch == InitDispatch /\ [][NextDispatch]_vars

(***************************************************************************)
(* SpecClose: nothing but Close calls, from the user threads and from the  *)
(* reactor on EPOLLERR / EPOLLHUP.                                         *)
(***************************************************************************)
Closers == Users \cup {Reactor}

NextClose ==
    \/ \E t \in Users : UserClose(t)
    \/ Hangup
    \/ StaleEvent
    \/ \E t \in Closers : closeAndWaitOnMessage(t)
    \/ \E t \in Closers : closeLock(t)
    \/ \E t \in Closers : closeInnerDel(t)
    \/ \E t \in Closers : closeInnerFd(t)
    \/ \E t \in Closers : closeInnerOnce(t)
    \/ \E t \in Closers : closeInnerParent(t)
    \/ \E t \in Closers : closeInnerClosed(t)

SpecClose == Init /\ [][NextClose]_vars

(***************************************************************************)
(* The frame parser: readHeader over the bytes of rbuf, driven by the      *)
(* parse loop of processWebsocketFrame.                                    *)
(***************************************************************************)
\* frames the peer's stream is built from
MaxStreamFrames == 2

\* binary.BigEndian.Uint16 / Uint64 and binary.LittleEndian.Uint32 of a slice
RECURSIVE UintBE(_)
UintBE(b) == IF b = <<>> THEN 0
             ELSE UintBE(SubSeq(b, 1, Len(b) - 1)) * 256 + b[Len(b)]
Uint32LE(b) == b[1] + 256 * b[2] + 65536 * b[3] + 16777216 * b[4]

\* int64(binary.BigEndian.Uint64(b)): the eight bytes as a two's complement
\* number, negative when the first bit is set
Int64BE(b) ==
    IF b[1] < 128 THEN UintBE(b)
    ELSE 0 - (UintBE([i \in 1..Len(b) |-> 255 - b[i]]) + 1)

\* rbuf[from:to] with Go's zero-based, half-open bounds
Slice(b, from, to) == SubSeq(b, from + 1, to)

\* readHeader, state frameStateHeaderStart (p holds the parser's fields)
readHeaderStart(p) ==
    IF Len(p.rbuf) - p.ri < 2 THEN p
    ELSE LET head == p.rbuf[p.ri + 1]
             maskAndPayloadLen == p.rbuf[p.ri + 2]
             Mask == maskAndPayloadLen >= 128
             PayloadLen == maskAndPayloadLen % 128
             have == (IF Mask THEN 4 ELSE 0)
                     + (IF PayloadLen = 126 THEN 2
                        ELSE IF PayloadLen = 127 THEN 8 ELSE 0)
             h == [p.rh EXCEPT !.head = head, !.Opcode = head % 16,
                               !.Mask = Mask, !.PayloadLen = PayloadLen]
         IN IF PayloadLen = 0 /\ ~Mask
            THEN [p EXCEPT !.rh = h]
            ELSE [p EXCEPT !.rh = h,
                           !.curState = "frameStateHeaderPayloadAndMask",
                           !.haveSize = have,
                           !.ri = p.ri + 2]

\* readHeader, state frameStateHeaderPayloadAndMask
readHeaderPayloadAndMask(p) ==
    IF Len(p.rbuf) - p.ri < p.haveSize THEN p
    ELSE LET head == Slice(p.rbuf, p.ri, p.ri + p.haveSize)
             ext == IF p.rh.PayloadLen = 126 THEN 2
                    ELSE IF p.rh.PayloadLen = 127 THEN 8 ELSE 0
             len == IF ext = 0 THEN p.rh.PayloadLen
                    ELSE IF ext = 2 THEN UintBE(Slice(head, 0, ext))
                    ELSE Int64BE(Slice(head, 0, ext))
             key == IF p.rh.Mask THEN Uint32LE(Slice(head, ext, ext + 4))
                    ELSE p.rh.MaskKey
         IN [p EXCEPT !.rh = [p.rh EXCEPT !.PayloadLen = len, !.MaskKey = key],
                      !.curState = "frameStatePayload"]

\* Conn.readHeader: both stages in one call
readHeader(p) ==
    LET q == IF p.curState = "frameStateHeaderStart" THEN readHeaderStart(p) ELSE p
    IN IF q.curState = "frameStateHeaderPayloadAndMask"
       THEN readHeaderPayloadAndMask(q)
       ELSE q

\* the header is complete: the parse loop goes on to the payload
readHeaderSucess(p) == p.curState = "frameStatePayload"

\* the payload stage: the extended header and the payload are all in rbuf
payloadReady(p) == Len(p.rbuf) - p.ri >= p.haveSize + p.rh.PayloadLen

\* the payload stage: the frame handed on, the bytes consumed, back to the start
readPayload(p) ==
    [p EXCEPT !.ri = p.ri + p.haveSize + p.rh.PayloadLen,
              !.curState = "frameStateHeaderStart"]
payloadOf(p) ==
    Slice(p.rbuf, p.ri + p.haveSize, p.ri + p.haveSize + p.rh.PayloadLen)

Parser == [rbuf |-> rbuf, ri |-> ri, curState |-> curState,
           haveSize |-> haveSize, rh |-> rh]

SetParser(p) ==
    /\ rbuf' = p.rbuf
    /\ ri' = p.ri
    /\ curState' = p.curState
    /\ haveSize' = p.haveSize
    /\ rh' = p.rh

otherVars == <<dialVars, poolVars, causeVars, extraVars, cfg, connVars, wbuf, fragVars, inbox, epollOut, mu, cont, panic,
               nEvents, opsLeft, onClose, lastWrite, ghostVars>>

\* processWebsocketFrame, lines 660-688: unix.Read appends the next chunk of
\* the stream to rbuf, then the parse loop starts
ReadChunk ==
    /\ pc[Reactor] = "idle"
    /\ feed # <<>>
    /\ \E k \in 1..Len(feed) :
          /\ rbuf' = rbuf \o SubSeq(feed, 1, k)
          /\ feed' = SubSeq(feed, k + 1, Len(feed))
    /\ pc' = [pc EXCEPT ![Reactor] = "readHeader"]
    /\ UNCHANGED <<ri, curState, haveSize, rh, emitted, sent, otherVars>>

\* lines 712-719: sucess, err := c.readHeader()
ParseHeader ==
    /\ pc[Reactor] = "readHeader"
    /\ SetParser(readHeader(Parser))
    /\ pc' = [pc EXCEPT ![Reactor] =
                 IF readHeaderSucess(readHeader(Parser)) THEN "readPayload"
                 ELSE "idle"]
    /\ UNCHANGED <<emitted, feed, sent, otherVars>>

\* lines 720-727: sucess, err = c.readPayloadAndCallback()
ParsePayload ==
    /\ pc[Reactor] = "readPayload"
    /\ IF payloadReady(Parser)
       THEN /\ SetParser(readPayload(Parser))
            /\ emitted' = Append(emitted, [rh |-> rh, payload |-> payloadOf(Parser)])
            /\ pc' = [pc EXCEPT ![Reactor] = "readHeader"]
       ELSE /\ pc' = [pc EXCEPT ![Reactor] = "idle"]
            /\ UNCHANGED <<rbuf, ri, curState, haveSize, rh, emitted>>
    /\ UNCHANGED <<feed, sent, otherVars>>

\* what the peer sends: a frame as its first byte, the mask bit and key, the
\* form of the length (7, 16 or 64 bits; -64 for the 64-bit form holding
\* 0xFFFFFFFFFFFFFFFE, the most significant bit set) and the payload bytes on
\* the wire
Sent(head, mask, form, key, payload) ==
    [head |-> head, mask |-> mask, form |-> form, key |-> key, payload |-> payload]

\* the bytes of a sent frame
Wire(f) ==
    LET n == Len(f.payload)
        m == IF f.mask THEN 128 ELSE 0
    IN <<f.head>>
       \o (IF f.form = 7 THEN <<m + n>>
           ELSE IF f.form = 16 THEN <<m + 126, n \div 256, n % 256>>
           ELSE IF f.form = 64
           THEN <<m + 127, 0, 0, 0, 0, 0, 0, n \div 256, n % 256>>
           ELSE <<m + 127, 255, 255, 255, 255, 255, 255, 255, 254>>)
       \o (IF f.mask THEN f.key ELSE <<>>)
       \o f.payload

RECURSIVE WireAll(_)
WireAll(fs) == IF fs = <<>> THEN <<>> ELSE Wire(Head(fs)) \o WireAll(Tail(fs))

\* the frame the parser owes for a sent frame
Owed(f) ==
    [rh |-> [PayloadLen |-> Len(f.payload), Opcode |-> f.head % 16,
             MaskKey |-> IF f.mask THEN Uint32LE(f.key) ELSE 0,
             Mask |-> f.mask, head |-> f.head],
     payload |-> f.payload]

\* a Ping without payload, unmasked and masked; a one-byte Text, unmasked; a
\* one-byte Binary, masked; 126 bytes in the 16-bit form; two bytes in the
\* 64-bit form, masked
SentFrames ==
    {Sent(137, FALSE, 7, <<>>, <<>>),
     Sent(137, TRUE, 7, <<1, 2, 3, 4>>, <<>>),
     Sent(129, FALSE, 7, <<>>, <<97>>),
     Sent(130, TRUE, 7, <<1, 2, 3, 4>>, <<96>>),
     Sent(130, FALSE, 16, <<>>, BigPayload),
     Sent(130, TRUE, 64, <<1, 2, 3, 4>>, <<5, 6>>)}

Streams == UNION {[1..n -> SentFrames] : n \in 1..MaxStreamFrames}

InitParser ==
    /\ InitConn(FewConfigs)
    /\ NoDial
    /\ sent \in Streams
    /\ feed = WireAll(sent)

NextParser ==
    \/ ReadChunk
    \/ ParseHeader
    \/ ParsePayload

SpecParser == InitParser /\ [][NextParser]_vars

(***************************************************************************)
(* SpecLength: the parser over streams whose frames use the 64-bit form of *)
(* the length, with and without the most significant bit.                  *)
(***************************************************************************)
LongFrames ==
    {Sent(130, TRUE, 64, <<1, 2, 3, 4>>, <<5, 6>>),
     Sent(130, FALSE, 64, <<>>, <<5, 6>>),
     Sent(130, FALSE, 0 - 64, <<>>, <<>>),
     Sent(130, TRUE, 0 - 64, <<1, 2, 3, 4>>, <<>>)}

\* a frame with the most significant bit set ends its stream: the bytes after
\* it are at no frame boundary the peer meant
LongStreams ==
    {s \in UNION {[1..n -> LongFrames] : n \in 1..MaxStreamFrames} :
        \A i \in 1..(Len(s) - 1) : s[i].form = 64}

InitLength ==
    /\ InitConn(FewConfigs)
    /\ NoDial
    /\ sent \in LongStreams
    /\ feed = WireAll(sent)

SpecLength == InitLength /\ [][NextParser]_vars

(***************************************************************************)
(* SpecPool: a MultiEventLoop that registers connections as the kernel     *)
(* hands out descriptors and tears them down.  A teardown is closeInner,   *)
(* reached from Close or from `go c.closeInner(true, err)` after a failed  *)
(* write; the latter takes no lock, so two teardowns of one connection can *)
(* overlap: each runs del, then the store of fd = -1.                      *)
(***************************************************************************)
poolRest == <<dialVars, parserVars, causeVars, extraVars, cfg, connVars, wbuf, fragVars, inbox, epollOut,
              mu, pc, cont, nEvents, opsLeft, onClose, lastWrite, ghostVars>>

\* MultiEventLoop.getConn(fd) of the pool (0 for nil)
getConnOf(f) == loops[GoMod(f, NumLoops)][f]

\* newConn(fd, ...) for a socket the kernel just opened on a free descriptor,
\* then MultiEventLoop.add(c)
add(c, f) ==
    /\ ~panicked
    /\ ~poolConn[c].made
    /\ ~kfd[f]
    /\ kfd' = [kfd EXCEPT ![f] = TRUE]
    /\ poolConn' = [poolConn EXCEPT ![c] = [made |-> TRUE, fd |-> f, deleted |-> FALSE]]
    /\ loops' = [loops EXCEPT ![GoMod(f, NumLoops)][f] = c]
    /\ UNCHANGED <<closer, panic, poolRest>>

\* a teardown of a connection starts
closeInnerStart(k) ==
    /\ ~panicked
    /\ poolConn[k[1]].made
    /\ closer[k] = "none"
    /\ closer' = [closer EXCEPT ![k] = "del"]
    /\ UNCHANGED <<loops, poolConn, kfd, panic, poolRest>>

\* MultiEventLoop.del(c): conns.Delete(c.getFd()) on loops[c.getFd() % numLoops],
\* then unix.Close(c.getFd())
del(k) ==
    LET c == k[1]
        f == poolConn[c].fd
        index == GoMod(f, NumLoops)
    IN /\ ~panicked
       /\ closer[k] = "del"
       /\ IF index < 0
          THEN /\ panic' = "index out of range"
               /\ UNCHANGED <<loops, kfd, poolConn, closer>>
          ELSE /\ loops' = [loops EXCEPT ![index] =
                               [g \in PoolFds |-> IF g = f THEN 0 ELSE @[g]]]
               /\ kfd' = [g \in PoolFds |-> IF g = f THEN FALSE ELSE kfd[g]]
               /\ poolConn' = [poolConn EXCEPT ![c].deleted = TRUE]
               /\ closer' = [closer EXCEPT ![k] = "fd"]
               /\ UNCHANGED panic
       /\ UNCHANGED poolRest

\* closeInner after del: atomic.StoreInt64(&c.fd, -1)
storeFd(k) ==
    /\ ~panicked
    /\ closer[k] = "fd"
    /\ poolConn' = [poolConn EXCEPT ![k[1]].fd = 0 - 1]
    /\ closer' = [closer EXCEPT ![k] = "done"]
    /\ UNCHANGED <<loops, kfd, panic, poolRest>>

NextPool ==
    \/ \E c \in PoolConns, f \in PoolFds : add(c, f)
    \/ \E k \in Teardowns : closeInnerStart(k)
    \/ \E k \in Teardowns : del(k)
    \/ \E k \in Teardowns : storeFd(k)

SpecPool == Init /\ [][NextPool]_vars

(***************************************************************************)
(* SpecDial: DialOption.Dial, the client handshake, one step per statement *)
(* that can fail, then the deferred functions and the return.              *)
(***************************************************************************)
dialRest == <<poolVars, parserVars, causeVars, extraVars, cfg, connVars, wbuf, fragVars, inbox, epollOut,
              mu, pc, cont, panic, nEvents, opsLeft, onClose, lastWrite, ghostVars>>

\* one extension of a Sec-WebSocket-Extensions header: its name (the "" key of
\* the parsed map) and the names of its parameters
Ext(name, params) == [name |-> name, params |-> params]

\* the Sec-WebSocket-Extensions headers a server may answer with
ExtHeaders ==
    {<<>>,
     <<Ext("permessage-deflate", {})>>,
     <<Ext("permessage-deflate", {"server_no_context_takeover"})>>,
     <<Ext("permessage-deflate", {"client_no_context_takeover"})>>,
     <<Ext("permessage-deflate",
           {"server_no_context_takeover", "client_no_context_takeover"})>>,
     <<Ext("x-webkit-deflate-frame", {}),
       Ext("permessage-deflate", {"server_no_context_takeover"})>>}

\* the responses: the status code, whether Upgrade, Connection and
\* Sec-WebSocket-Accept hold the value validateRsp compares them with, and the
\* extensions
Responses ==
    [StatusCode : {101, 200}, Upgrade : BOOLEAN, Connection : BOOLEAN,
     Accept : BOOLEAN, Extensions : ExtHeaders]

\* parseExtensions(header): the extensions of the header, in order
parseExtensions(header) == header.Extensions

\* maybeCompressionDecompression: the first permessage-deflate extension decides
maybeCompressionDecompression(header) ==
    LET exts == parseExtensions(header)
        hits == {i \in DOMAIN exts : exts[i].name = "permessage-deflate"}
    IN IF hits = {} THEN FALSE
       ELSE LET i == CHOOSE j \in hits : \A k \in hits : j <= k
            IN \/ "server_no_context_takeover" \in exts[i].params
               \/ "client_no_context_takeover" \in exts[i].params

\* DialOption.validateRsp
validateRsp(r) ==
    IF r.StatusCode # 101 THEN "ErrWrongStatusCode"
    ELSE IF ~r.Upgrade THEN "ErrUpgradeFieldValue"
    ELSE IF ~r.Connection THEN "ErrConnectionFieldValue"
    ELSE IF ~r.Accept THEN "ErrSecWebSocketAccept"
    ELSE "nil"

\* the options a caller can set: nothing, decompression alone
\* (WithClientDecompression), or decompression with compression, the one
\* setting in which the handshake offers the extension
DialConfigs ==
    {c \in [decompression : BOOLEAN, compression : BOOLEAN] :
        c.compression => c.decompression}

\* the state when Dial is called: the options of the caller
InitDial ==
    /\ InitConn(FewConfigs)
    /\ feed = <<>>
    /\ sent = <<>>
    /\ dpc = "Dial"
    /\ derr = "nil"
    /\ dc = "nil"
    /\ dconn = FALSE
    /\ sock = "none"
    /\ defers = <<>>
    /\ dcfg \in DialConfigs
    /\ offered = FALSE
    /\ rsp = NoRsp

\* DialOption.handshake, lines 119-121: the extension is offered when both
\* decompression and compression are on
handshake == dcfg.decompression /\ dcfg.compression

\* lines 179-199: handshake() and net.Dial, either of which may fail (return
\* nil, err); then tlsConn and the deferred close
DialConnect ==
    /\ dpc = "Dial"
    /\ \/ /\ \E e \in {"ErrScheme", "IOError"} : derr' = e
          /\ dc' = "nil"
          /\ dpc' = "return"
          /\ UNCHANGED <<dconn, sock, defers, offered>>
       \/ /\ offered' = handshake
          /\ dconn' = TRUE
          /\ sock' = "open"
          /\ defers' = Append(defers, "close")
          /\ dpc' = "SetDeadline"
          /\ UNCHANGED <<derr, dc>>
    /\ UNCHANGED <<dcfg, rsp, dialRest>>

\* lines 201-211: conn.SetDeadline when time is left, then the deferred reset
DialSetDeadline ==
    /\ dpc = "SetDeadline"
    /\ \/ \* to > 0 and SetDeadline fails: return
          /\ derr' = "IOError"
          /\ dpc' = "return"
          /\ UNCHANGED defers
       \/ \* to <= 0, or SetDeadline succeeds
          /\ defers' = Append(defers, "reset")
          /\ dpc' = "Write"
          /\ UNCHANGED derr
    /\ UNCHANGED <<dc, dconn, sock, dcfg, rsp, offered, dialRest>>

\* lines 213-215: req.Write(conn)
DialWrite ==
    /\ dpc = "Write"
    /\ \/ derr' = "IOError" /\ dpc' = "return"
       \/ dpc' = "ReadResponse" /\ UNCHANGED derr
    /\ UNCHANGED <<dc, dconn, sock, defers, dcfg, rsp, offered, dialRest>>

\* lines 217-221: http.ReadResponse
DialReadResponse ==
    /\ dpc = "ReadResponse"
    /\ \/ /\ derr' = "IOError"
          /\ dc' = "nil"
          /\ dpc' = "return"
          /\ UNCHANGED rsp
       \/ /\ rsp' \in Responses
          /\ dpc' = "negotiate"
          /\ UNCHANGED <<derr, dc>>
    /\ UNCHANGED <<dconn, sock, defers, dcfg, offered, dialRest>>

\* lines 227-233: what the response says about compression
DialNegotiate ==
    /\ dpc = "negotiate"
    /\ LET cd == maybeCompressionDecompression(rsp)
       IN dcfg' = [decompression |-> IF dcfg.decompression THEN cd ELSE FALSE,
                   compression |-> IF dcfg.compression THEN cd ELSE FALSE]
    /\ dpc' = "validateRsp"
    /\ UNCHANGED <<derr, dc, dconn, sock, defers, rsp, offered, dialRest>>

\* lines 235-239: validateRsp fails (return), or return nil, nil
DialValidate ==
    /\ dpc = "validateRsp"
    /\ derr' = validateRsp(rsp)
    /\ dc' = IF validateRsp(rsp) = "nil" THEN "nil" ELSE dc
    /\ dpc' = "return"
    /\ UNCHANGED <<dconn, sock, defers, dcfg, rsp, offered, dialRest>>

\* deferred functions run last in, first out, with a slip: first in, first out
deferredNextFifo(ds) == 1

\* the deferred function that runs next: last in, first out
deferredNext(ds) == Len(ds)

\* the deferred functions run: lines 207-211 (reset the deadline when err is
\* nil; the result becomes err) and lines 194-199 (close when err is not nil)
DialDeferred ==
    /\ dpc = "return"
    /\ defers # <<>>
    /\ LET i == deferredNext(defers)
       IN /\ defers' = SubSeq(defers, 1, i - 1) \o SubSeq(defers, i + 1, Len(defers))
          /\ IF defers[i] = "reset"
             THEN /\ IF derr = "nil" THEN derr' \in {"nil", "IOError"}
                     ELSE UNCHANGED derr
                  /\ UNCHANGED <<dconn, sock>>
             ELSE /\ IF derr # "nil" /\ dconn
                     THEN sock' = "closed" /\ dconn' = FALSE
                     ELSE UNCHANGED <<dconn, sock>>
                  /\ UNCHANGED derr
    /\ UNCHANGED <<dpc, dc, dcfg, rsp, offered, dialRest>>

\* Dial returns c and err to its caller
DialReturn ==
    /\ dpc = "return"
    /\ defers = <<>>
    /\ dpc' = "done"
    /\ UNCHANGED <<derr, dc, dconn, sock, defers, dcfg, rsp, offered, dialRest>>

NextDial ==
    \/ DialConnect
    \/ DialSetDeadline
    \/ DialWrite
    \/ DialReadResponse
    \/ DialNegotiate
    \/ DialValidate
    \/ DialDeferred
    \/ DialReturn

SpecDial == InitDial /\ [][NextDial]_vars

(***************************************************************************)
(* SpecWrite: Write and flushOrClose calls one after the other on an open  *)
(* connection, with the bytes the kernel accepted kept in order.           *)
(* unix.Write takes everything, stops short, or reports EAGAIN / EINTR.    *)
(***************************************************************************)
\* bytes passed to Write in all
MaxGiven == 5

\* the buffers passed to Write
WriteBufs == UserBufs \cup {<<100>>}

writeRest == <<dialVars, poolVars, parserVars, causeVars, pollVars, addVars, rcap, hsVars, uringVars, cfg, connVars, fragVars,
               inbox, mu, pc, cont, nEvents, opsLeft, onClose, lastWrite, ghostVars>>

\* unix.Write(fd, b) returning n: the kernel has the first n bytes of b
Taken(b, n) == SubSeq(b, 1, n)

\* the buffer a Write call hands to unix.Write: c.wbuf with b appended when
\* c.wbuf holds bytes (lines 583-586 and 80-83), else b
Merged(b) == IF Len(wbuf) > 0 THEN wbuf \o b ELSE b

\* what a call that wrote buffer b with result r leaves behind
Written(b, r) ==
    /\ wbuf' = r.wbuf
    /\ epollOut' = r.epOut
    /\ panic' = IF r.panic THEN "slice bounds out of range" ELSE panic
    /\ kernelOut' = kernelOut \o Taken(b, r.n)

WriteReady(b) ==
    /\ ~panicked
    /\ closed = 0
    /\ FdUsable
    /\ Len(given) + Len(b) <= MaxGiven

\* Conn.Write(b), lines 579-593
WriteCall(b) ==
    /\ WriteReady(b)
    /\ \E r \in ConnWrite(b) : r.err = "nil" /\ Written(Merged(b), r)
    /\ given' = given \o b
    /\ UNCHANGED writeRest

\* conn.Write(b), lines 77-97, the writer frame.WriteFrame is given at line 439
connWriteCall(b) ==
    /\ WriteReady(b)
    /\ \E r \in connWrite(b) : r.err \in {"nil", "EAGAIN"} /\ Written(Merged(b), r)
    /\ given' = given \o b
    /\ UNCHANGED writeRest

\* Conn.flushOrClose(), lines 643-649
flushOrCloseCall ==
    /\ WriteReady(<<>>)
    /\ \E r \in flushOrClose : r.err = "nil" /\ Written(wbuf, r)
    /\ UNCHANGED <<given, writeRest>>

NextWrite ==
    \/ \E b \in WriteBufs : WriteCall(b)
    \/ \E b \in WriteBufs : connWriteCall(b)
    \/ flushOrCloseCall

SpecWrite == Init /\ [][NextWrite]_vars

(***************************************************************************)
(* SpecFlush: bytes left in wbuf by a Write, the reactor flushing them on  *)
(* EPOLLOUT for as long as it runs, and the teardown a failed write starts *)
(* in the background.                                                      *)
(***************************************************************************)
\* the flushes in which the socket was writable (the kernel took a byte) or
\* had failed for good
Progress == {r \in flushOrClose : r.n > 0 \/ r.err # "nil"}

\* apiPoll, lines 108-111 of the epoll backend: an event with EPOLLOUT for the
\* connection, conn.flushOrClose() ending as one of rs
apiPollOut(rs) ==
    /\ ~panicked
    /\ pc[Reactor] = "idle"
    /\ getConn
    /\ epollOut
    /\ mu = NoThread
    /\ \E r \in rs :
          /\ ApplyWrite(Reactor, r, "idle")
          /\ kernelOut' = kernelOut \o Taken(wbuf, r.n)
    /\ UNCHANGED <<given, dialVars, poolVars, parserVars, pollVars, addVars, rcap, hsVars,
                   uringVars,
                   closeArg, cfg,
                   connVars, fragVars, inbox, mu, cont, nEvents, opsLeft, onClose, lastWrite,
                   ghostVars>>

\* a step of a goroutine running closeInner
goCloseInner(g) ==
    \/ closeInnerDel(g)
    \/ closeInnerFd(g)
    \/ closeInnerOnce(g)
    \/ closeInnerParent(g)
    \/ closeInnerClosed(g)

NextFlush ==
    \/ \E b \in WriteBufs : WriteCall(b)
    \/ apiPollOut(flushOrClose)
    \/ \E g \in Gos : goCloseInner(g)

\* the socket keeps becoming writable and the reactor keeps polling; every
\* goroutine keeps running
FairFlush ==
    /\ SF_vars(apiPollOut(Progress))
    /\ \A g \in Gos : WF_vars(goCloseInner(g))

SpecFlush == Init /\ [][NextFlush]_vars /\ FairFlush

(***************************************************************************)
(* SpecPoll: poll iterations of one event loop.  A poll returns a batch of *)
(* events, each for another connection, and the loop handles them in       *)
(* order; what matters of an event is whether its handler fails.           *)
(***************************************************************************)
\* events one poll returns at most
MaxPoll == 3
\* poll iterations
MaxPolls == 2

coreVars == <<cfg, connVars, wbuf, fragVars, inbox, epollOut, mu, pc, cont, panic,
              nEvents, opsLeft, onClose, lastWrite, ghostVars>>
pollRest == <<coreVars, dialVars, poolVars, parserVars, causeVars, streamVars, addVars,
              rcap, hsVars, uringVars>>

Backends == {"epoll", "io_uring"}

\* what an event of the epoll backend leads to: the handlers succeed,
\* processWebsocketFrame returns an error, flushOrClose returns an error, or
\* the fd is in no map
EpollEvents == {"ok", "readErr", "flushErr", "orphan"}

\* a completion of the io_uring backend: the operation succeeded or failed
Completions == {"ok", "failed"}

Batches(kinds) == UNION {[1..n -> kinds] : n \in 0..MaxPoll}

\* processConn(cqe): nil, or the error of a completion that failed
processConn(cqe) == IF cqe = "ok" THEN "nil" ELSE "processConn: " \o cqe

\* CreateEventLoop with apiCreate or apiIoUringCreate
CreateEventLoop(b) ==
    /\ ppc = "none"
    /\ backend' = b
    /\ ppc' = "idle"
    /\ UNCHANGED <<batch, pi, handled, pollRet, nPolls, pollRest>>

\* unix.EpollWait (line 90) or SubmitAndWaitTimeout and PeekBatchCQE (156-161)
\* return the events
apiPollWait ==
    /\ ppc = "idle"
    /\ nPolls < MaxPolls
    /\ nPolls' = nPolls + 1
    /\ batch' \in Batches(IF backend = "epoll" THEN EpollEvents ELSE Completions)
    /\ pi' = 0
    /\ handled' = {}
    /\ pollRet' = "none"
    /\ ppc' = "events"
    /\ UNCHANGED <<backend, pollRest>>

\* EventLoop.apiPoll, lines 97-116: one turn of the loop; nothing a handler
\* returns is looked at
epollEvent ==
    /\ backend = "epoll"
    /\ ppc = "events"
    /\ pi < Len(batch)
    /\ handled' = handled \cup {pi + 1}
    /\ pi' = pi + 1
    /\ UNCHANGED <<backend, batch, pollRet, ppc, nPolls, pollRest>>

\* EventLoop.apiPoll, line 120: return numEvents, nil
epollReturn ==
    /\ backend = "epoll"
    /\ ppc = "events"
    /\ pi = Len(batch)
    /\ pollRet' = "nil"
    /\ ppc' = "idle"
    /\ UNCHANGED <<backend, batch, pi, handled, nPolls, pollRest>>

\* iouringState.run, lines 164-172: one turn of the loop; an error of
\* processConn ends run, and apiPoll (178-183) returns it
iouringEvent ==
    /\ backend = "io_uring"
    /\ ppc = "events"
    /\ pi < Len(batch)
    /\ handled' = handled \cup {pi + 1}
    /\ pi' = pi + 1
    /\ LET err == processConn(batch[pi + 1])
       IN IF err # "nil"
          THEN pollRet' = err /\ ppc' = "idle"
          ELSE UNCHANGED <<pollRet, ppc>>
    /\ UNCHANGED <<backend, batch, nPolls, pollRest>>

\* iouringState.run, lines 173-175, and apiPoll, line 182: return 0, nil
iouringReturn ==
    /\ backend = "io_uring"
    /\ ppc = "events"
    /\ pi = Len(batch)
    /\ pollRet' = "nil"
    /\ ppc' = "idle"
    /\ UNCHANGED <<backend, batch, pi, handled, nPolls, pollRest>>

NextPoll ==
    \/ \E b \in Backends : CreateEventLoop(b)
    \/ apiPollWait
    \/ epollEvent
    \/ epollReturn
    \/ iouringEvent
    \/ iouringReturn

SpecPoll == Init /\ [][NextPoll]_vars

(***************************************************************************)
(* SpecAdd: MultiEventLoop.add called by the accepting thread while the    *)
(* reactors poll.  add is two statements, and the peer may have sent bytes *)
(* before the first.                                                       *)
(***************************************************************************)
addRest == <<dialVars, parserVars, causeVars, streamVars, pollVars, rcap, hsVars, uringVars, cfg, connVars,
             wbuf, fragVars, inbox, epollOut, mu, pc, cont, panic, opsLeft, onClose,
             lastWrite, ghostVars>>

\* newConn(fd, ...) for a socket the kernel opened on a free descriptor, then
\* add, lines 41-42: m.loops[index].addRead(c.getFd())
addRead(c, f) ==
    /\ apc[c] = "none"
    /\ ~kfd[f]
    /\ kfd' = [kfd EXCEPT ![f] = TRUE]
    /\ poolConn' = [poolConn EXCEPT ![c] = [made |-> TRUE, fd |-> f, deleted |-> FALSE]]
    /\ readArmed' = readArmed \cup {f}
    /\ apc' = [apc EXCEPT ![c] = "Store"]
    /\ UNCHANGED <<loops, closer, nEvents, addRest>>

\* add, line 43: m.loops[index].conns.Store(c.getFd(), c)
addStore(c) ==
    /\ apc[c] = "Store"
    /\ loops' = [loops EXCEPT ![GoMod(poolConn[c].fd, NumLoops)][poolConn[c].fd] = c]
    /\ apc' = [apc EXCEPT ![c] = "done"]
    /\ UNCHANGED <<poolConn, kfd, closer, readArmed, nEvents, addRest>>

\* apiPoll, lines 98-103: an event for fd f; a connection that is not in the
\* map has its fd closed (which takes it out of the epoll set), one that is
\* there gets the event
apiPollEvent(f) ==
    /\ nEvents < MaxEvents
    /\ f \in readArmed
    /\ nEvents' = nEvents + 1
    /\ IF getConnOf(f) = 0
       THEN /\ kfd' = [kfd EXCEPT ![f] = FALSE]
            /\ readArmed' = readArmed \ {f}
       ELSE UNCHANGED <<kfd, readArmed>>
    /\ UNCHANGED <<loops, poolConn, closer, apc, addRest>>

NextAdd ==
    \/ \E c \in PoolConns, f \in PoolFds : addRead(c, f)
    \/ \E c \in PoolConns : addStore(c)
    \/ \E f \in PoolFds : apiPollEvent(f)

SpecAdd == Init /\ [][NextAdd]_vars

(***************************************************************************)
(* SpecRead: the read loop of processWebsocketFrame over a read buffer of  *)
(* a fixed size that the parser may grow or compact.                       *)
(***************************************************************************)
\* the configured cap of the read buffer
MaxCap == 8
\* the margin a grown buffer gets beyond the frame
Margin == 1

Min(a, b) == IF a <= b THEN a ELSE b
Max(a, b) == IF a >= b THEN a ELSE b

readRest == <<dialVars, poolVars, causeVars, streamVars, pollVars, addVars, hsVars, uringVars, cfg,
              connVars, wbuf, fragVars, inbox, epollOut, mu, cont, panic, nEvents,
              opsLeft, onClose, lastWrite, ghostVars>>

\* a Ping without payload, unmasked; a one-byte Text, unmasked; a one-byte
\* Binary, masked
ReadFrames ==
    {Sent(137, FALSE, 7, <<>>, <<>>),
     Sent(129, FALSE, 7, <<>>, <<97>>),
     Sent(130, TRUE, 7, <<1, 2, 3, 4>>, <<96>>)}

ReadStreams == UNION {[1..n -> ReadFrames] : n \in 1..MaxStreamFrames}

InitRead ==
    /\ InitConn(FewConfigs)
    /\ NoDial
    /\ sent \in ReadStreams
    /\ feed = WireAll(sent)

\* compaction: rbuf[rr..rw] is copied to the front once rr crossed half the
\* size of the buffer
Compact(p, cap) ==
    IF 2 * p.ri > cap
    THEN [p EXCEPT !.rbuf = SubSeq(p.rbuf, p.ri + 1, Len(p.rbuf)), !.ri = 0]
    ELSE p

\* growth of a full buffer: to the frame and a margin when the size of the
\* frame is known, else to twice the size, up to the cap
Grown(p, cap) ==
    IF Len(p.rbuf) < cap THEN cap
    ELSE IF p.curState = "frameStatePayload"
    THEN Max(cap, p.ri + p.haveSize + p.rh.PayloadLen + Margin)
    ELSE Max(cap, Min(2 * cap, MaxCap))

\* apiPoll calls processWebsocketFrame on EPOLLIN
processWebsocketFrame ==
    /\ pc[Reactor] = "idle"
    /\ feed # <<>>
    /\ pc' = [pc EXCEPT ![Reactor] = "read"]
    /\ UNCHANGED <<parserVars, rcap, readRest>>

\* lines 661-688: n, err = unix.Read(fd, (*c.rbuf)[c.rw:]).  With room in the
\* buffer the kernel hands over bytes or reports EAGAIN, which ends the loop;
\* without room it returns 0 and no error
unixRead ==
    /\ pc[Reactor] = "read"
    /\ LET room == rcap - Len(rbuf)
       IN \/ /\ room > 0
             /\ \E n \in 1..Min(room, Len(feed)) :
                   /\ rbuf' = rbuf \o SubSeq(feed, 1, n)
                   /\ feed' = SubSeq(feed, n + 1, Len(feed))
                   /\ pc' = [pc EXCEPT ![Reactor] =
                                IF n = room THEN "full" ELSE "read"]
          \/ /\ room > 0
             /\ pc' = [pc EXCEPT ![Reactor] = "readHeader"]
             /\ UNCHANGED <<rbuf, feed>>
          \/ /\ room = 0
             /\ pc' = [pc EXCEPT ![Reactor] = "full"]
             /\ UNCHANGED <<rbuf, feed>>
    /\ UNCHANGED <<ri, curState, haveSize, rh, emitted, sent, rcap, readRest>>

\* lines 689-707: the buffer is full: readHeader, readPayloadAndCallback (which
\* make room as the growth policy says), continue
readFull ==
    /\ pc[Reactor] = "full"
    /\ LET p1 == readHeader(Parser)
           got == readHeaderSucess(p1) /\ payloadReady(p1)
           p2 == IF got THEN readPayload(p1) ELSE p1
           p3 == Compact(p2, rcap)
       IN /\ SetParser(p3)
          /\ rcap' = Grown(p3, rcap)
          /\ emitted' = IF got
                        THEN Append(emitted, [rh |-> p1.rh, payload |-> payloadOf(p1)])
                        ELSE emitted
    /\ pc' = [pc EXCEPT ![Reactor] = "read"]
    /\ UNCHANGED <<feed, sent, readRest>>

NextRead ==
    \/ processWebsocketFrame
    \/ unixRead
    \/ readFull
    \/ ParseHeader
    \/ ParsePayload

SpecRead == InitRead /\ [][NextRead]_vars

(***************************************************************************)
(* SpecHandshake: DialConf and Dial called on one DialOption, the request  *)
(* handshake builds, and the check of the response of a server that        *)
(* answers the key it was sent.                                            *)
(***************************************************************************)
MaxDials == 3

\* the keys secWebSocketAccept() may draw
Keys == 1..2

hsRest == <<coreVars, dialVars, poolVars, parserVars, causeVars, streamVars, pollVars,
            addVars, rcap, uringVars>>

\* a DialOption fresh from ClientOptionToConf, with the options of the caller
InitHandshake ==
    /\ InitConn(FewConfigs)
    /\ feed = <<>>
    /\ sent = <<>>
    /\ dpc = "none"
    /\ derr = "nil"
    /\ dc = "nil"
    /\ dconn = FALSE
    /\ sock = "none"
    /\ defers = <<>>
    /\ dcfg \in DialConfigs
    /\ offered = FALSE
    /\ rsp = NoRsp

\* http.Header.Add: the value goes behind the values the name already has
Add(header, name, value) == [header EXCEPT ![name] = Append(@, value)]

\* http.Header.Get: the first value of the name
Get(header, name) == IF header[name] = <<>> THEN 0 ELSE header[name][1]

\* DialOption.handshake, lines 106-121: the headers added to d.Header
handshakeHeader(header, key) ==
    LET h1 == Add(header, "Upgrade", "websocket")
        h2 == Add(h1, "Connection", "Upgrade")
        h3 == Add(h2, "Sec-WebSocket-Key", key)
        h4 == Add(h3, "Sec-WebSocket-Version", "13")
    IN IF handshake THEN Add(h4, "Sec-WebSocket-Extensions", "strExtensions") ELSE h4

\* the response of a server that answers the first key of the request, and
\* what validateRsp makes of it for the key of this call
handshakeValidate(header, key) ==
    validateRsp([StatusCode |-> 101, Upgrade |-> TRUE, Connection |-> TRUE,
                 Accept |-> (Get(header, "Sec-WebSocket-Key") = key),
                 Extensions |-> <<>>])

\* Dial from handshake to validateRsp, for the scheme s of d.u: lines 92-123
\* (the scheme is rewritten or the call fails; the request shares d.Header)
\* and line 235
DialOptionDial(s) ==
    IF s \notin {"ws", "wss"}
    THEN /\ hres' = "ErrScheme"
         /\ req' = EmptyHeader
         /\ scheme' = s
         /\ UNCHANGED <<Header, secWebSocket>>
    ELSE \E key \in Keys :
            /\ scheme' = IF s = "wss" THEN "https" ELSE "http"
            /\ Header' = handshakeHeader(Header, key)
            /\ req' = Header'
            /\ secWebSocket' = key
            /\ hres' = handshakeValidate(Header', key)

\* DialConf(rawUrl, conf), lines 51-65: conf.u is the parsed URL, conf.Header
\* is made when it is nil, then conf.Dial()
DialConf ==
    /\ hcalls < MaxDials
    /\ hcalls' = hcalls + 1
    /\ \E s \in {"ws", "wss"} : DialOptionDial(s)
    /\ UNCHANGED hsRest

\* d.Dial() called again on the DialOption of an earlier call
Dial ==
    /\ hcalls > 0
    /\ hcalls < MaxDials
    /\ hcalls' = hcalls + 1
    /\ DialOptionDial(scheme)
    /\ UNCHANGED hsRest

NextHandshake ==
    \/ DialConf
    \/ Dial

SpecHandshake == InitHandshake /\ [][NextHandshake]_vars

(***************************************************************************)
(* SpecUring: calls of WriteFrameOnlyIoUring on one connection, each with  *)
(* a buffer of its own from the pool.                                      *)
(***************************************************************************)
\* the turns of the loop that looks for a free seq
Attempts == 3

uringRest == <<coreVars, dialVars, poolVars, parserVars, causeVars, streamVars, pollVars,
              addVars, rcap, hsVars>>

\* lines 757-760: c.wSeq++, back to 0 at math.MaxUint16
nextSeq(s) == IF s + 1 = SeqWrap THEN 0 ELSE s + 1

\* lines 754-765: the loop from wSeq = s after i turns: the seq it stops at and
\* whether that seq is free
RECURSIVE storeSeq(_, _)
storeSeq(s, i) ==
    IF i = Attempts THEN [ok |-> FALSE, seq |-> s]
    ELSE LET newSeq == nextSeq(s)
         IN IF stateM[newSeq] # 0 THEN storeSeq(newSeq, i + 1)
            ELSE [ok |-> TRUE, seq |-> newSeq]

\* iouringState.addWrite: GetSQE may return nil
addWrite == {"nil", "GetSQE is nil"}

\* Conn.WriteFrameOnlyIoUring with the buffer buf from the pool
WriteFrameOnlyIoUring ==
    /\ wcalls < MaxWrites
    /\ wcalls' = wcalls + 1
    /\ LET buf == wcalls + 1
       IN \/ \* WriteHeader or fw.Write fails: goto free
             /\ uerr' = "encode"
             /\ puts' = [puts EXCEPT ![buf] = @ + 1]
             /\ UNCHANGED <<wSeq, stateM>>
          \/ LET t == storeSeq(wSeq, 0)
             IN /\ wSeq' = t.seq
                /\ IF t.ok
                   THEN \* lines 767-778: Store, addWrite, return
                        /\ stateM' = [stateM EXCEPT ![t.seq] = buf]
                        /\ uerr' \in addWrite
                        /\ UNCHANGED puts
                   ELSE \* lines 781-786: no seq was free
                        /\ uerr' = "store seq failed"
                        /\ puts' = [puts EXCEPT ![buf] = @ + 1]
                        /\ UNCHANGED stateM
    /\ UNCHANGED uringRest

NextUring == WriteFrameOnlyIoUring

SpecUring == Init /\ [][NextUring]_vars

(***************************************************************************)
(* Properties.                                                             *)
(***************************************************************************)
\* a step of Dispatch: processCallback took the first frame of the inbox
Dispatching == inbox # <<>> /\ inbox' = Tail(inbox)

HasOnMessage(calls) == \E i \in DOMAIN calls : calls[i].cb = "OnMessage"

\* C1: whatever the events and their interleaving, OnClose is invoked exactly
\* once: never twice, and once for a connection whose closed flag is set.
C1_OnCloseExactlyOnce ==
    /\ OnCloseCount <= 1
    /\ closed = 1 => OnCloseCount = 1

\* C2: calling Close several times, one after the other or concurrently, is
\* safe (no call brings the process down) and invokes OnClose at most once.
C2_CloseSafeAndOnce ==
    /\ ~panicked
    /\ OnCloseCount <= 1

\* C3: every OnMessage comes before the OnClose: no step delivers an OnMessage
\* once OnClose was invoked.
C3_OnMessageBeforeOnClose ==
    [][(Dispatching /\ HasOnMessage(lastCalls')) => OnCloseCount = 0]_vars

\* C4: once the closed flag is set, no WriteMessage call writes bytes to the fd
\* or appends to wbuf, and a WriteMessage call that starts then returns ErrClosed.
C4_NoWriteAfterClosed ==
    [][\A t \in Users :
          /\ (closed = 1 /\ pc[t] = "wm_lock" /\ pc'[t] = "idle")
                => (wbuf' = wbuf /\ lastWrite'.n = 0)
          /\ (closed = 1 /\ pc[t] = "idle" /\ opsLeft'[t] < opsLeft[t]
                /\ lastWrite' # lastWrite)
                => (lastWrite'.err = "ErrClosed" /\ pc'[t] = "idle")
          /\ (closed = 1 /\ pc[t] = "idle") => pc'[t] # "wm_lock"]_vars

\* C5: in every state of an open connection wbuf is non-empty exactly when the
\* fd is armed for write readiness.
C5_WbufIffArmed ==
    (closed = 0 /\ FdUsable /\ ~panicked) => (wbuf # <<>> <=> epollOut)

\* the errors the dispatcher raises for a violation of the protocol
ProtocolErrors == {"ErrRsv123", "ErrOpcode", "ErrFrameOpcode",
                   "ErrMaxControlFrameSize", "ErrNOTBeFragmented", "ErrCloseValue"}

\* C6: after the dispatcher returned a protocol error, a Close frame with status
\* 1002 was written, OnClose was invoked with the error, and the connection is
\* closed: the closed flag is set and the fd is torn down.
C6_ProtocolErrorCloses ==
    (pc[Reactor] = "idle" /\ lastErr \in ProtocolErrors)
        => /\ lastWrite.op = Close
           /\ lastWrite.payload = statusCodeToBytes(ProtocolError)
           /\ lastCalls = <<OnCloseCall(lastErr)>>
           /\ closed = 1
           /\ fd = 0 - 1
           /\ ~fdOpen

NoRsv(f) == ~f.rsv1 /\ ~f.rsv2 /\ ~f.rsv3

RECURSIVE Concat(_)
Concat(fs) == IF fs = <<>> THEN <<>> ELSE Head(fs).payload \o Concat(Tail(fs))

\* the message in progress is compressed
Compressed == wireMsg[1].rsv1 /\ cfg.decompression

\* the payload the peer's message has once frame f completes it
MessagePayload(f) ==
    IF Compressed THEN decode(Concat(wireMsg) \o f.payload)
    ELSE Concat(wireMsg) \o f.payload

\* the message frame f completes can be delivered
Deliverable(f) ==
    /\ Compressed => decodeOk(Concat(wireMsg) \o f.payload)
    /\ wireMsg[1].opcode = Text => utf8Check(MessagePayload(f))

\* C7: on a connection without earlier errors, the final Continuation frame of a
\* message of K >= 2 frames makes the dispatcher invoke OnMessage exactly once,
\* with the opcode of the first frame and the fragments' payloads concatenated in
\* order (inflated when the message is compressed), and leaves the fragment state
\* empty; no earlier fragment invokes OnMessage; a Ping or Pong in between leaves
\* the fragment state alone and delivers nothing but itself.
C7_FragmentsReassembled ==
    [][(Dispatching /\ clean) =>
          LET f == Head(inbox)
          IN /\ (/\ wireMsg # <<>>
                 /\ f.opcode = Continuation /\ f.fin /\ NoRsv(f)
                 /\ Deliverable(f))
                   => /\ lastCalls' = <<OnMessageCall(wireMsg[1].opcode,
                                                      MessagePayload(f))>>
                      /\ fragmentFrameHeader' = NoHeader
                      /\ fragmentFramePayload' = <<>>
             /\ (~f.fin /\ f.opcode \in {Continuation, Text, Binary})
                   => ~HasOnMessage(lastCalls')
             /\ (wireMsg # <<>> /\ f.opcode \in {Ping, Pong})
                   => /\ fragmentFrameHeader' = fragmentFrameHeader
                      /\ fragmentFramePayload' = fragmentFramePayload
                      /\ \A i \in DOMAIN lastCalls' :
                            lastCalls'[i].cb = "OnMessage"
                               => lastCalls'[i].op = f.opcode]_vars

\* a Text message of two fragments with a Ping answered in between was delivered
C7_Witness ==
    /\ lastCalls = <<OnMessageCall(Text, <<195, 169>>)>>
    /\ lastWrite.op = Pong
    /\ lastWrite.err = "nil"
    /\ clean
    /\ fragmentFrameHeader = NoHeader
    /\ fragmentFramePayload = <<>>

\* an emitted frame as the dispatcher sees it: the mask key counts only when the
\* frame is masked
Seen(e) == IF e.rh.Mask THEN e ELSE [e EXCEPT !.rh.MaskKey = 0]

\* C8: once every chunk of a valid stream was appended to rbuf and the parser
\* returned, it has emitted the frames of the stream, headers and payloads, in
\* order, and has consumed every byte, however the stream was cut into chunks.
C8_ParserResumable ==
    (sent # <<>> /\ feed = <<>> /\ pc[Reactor] = "idle")
        => /\ [i \in DOMAIN emitted |-> Seen(emitted[i])]
                 = [i \in 1..Len(sent) |-> Owed(sent[i])]
           /\ ri = Len(rbuf)

\* C9: while a fragmented message is in progress, a non-control frame that is
\* not a Continuation is a protocol error: OnClose gets the error, OnMessage is
\* not invoked, and the fragment state keeps the message as it was.
C9_NewDataFrameRejected ==
    [][(/\ Dispatching
        /\ fragmentFrameHeader.set
        /\ ~IsControl(Head(inbox).opcode)
        /\ Head(inbox).opcode # Continuation)
          => /\ lastCalls' \in {<<OnCloseCall("ErrFrameOpcode")>>,
                                <<OnCloseCall("ErrRsv123")>>}
             /\ lastErr' # "nil"
             /\ fragmentFrameHeader' = fragmentFrameHeader
             /\ fragmentFramePayload' = fragmentFramePayload]_vars

\* a data frame was refused while the message "a..." was in progress
C9_Witness ==
    /\ fragmentFrameHeader.set
    /\ fragmentFramePayload = <<97>>
    /\ lastErr = "ErrFrameOpcode"
    /\ lastCalls = <<OnCloseCall("ErrFrameOpcode")>>

FragmentedControl(f) ==
    f.opcode \in {Close, Ping, Pong} /\ ~f.fin /\ NoRsv(f)

\* C10 as claimed: every control frame with fin = 0 and clear reserved bits
\* fails with NotBeFragmented, whatever its payload length, and is not delivered.
C10_AlwaysNotBeFragmented ==
    [][(Dispatching /\ FragmentedControl(Head(inbox)))
          => lastCalls' = <<OnCloseCall("ErrNOTBeFragmented")>>]_vars

\* C10 as amended: a control frame with fin = 0 and clear reserved bits fails
\* with NotBeFragmented when its payload has at most 125 bytes and with
\* MaxControlFrameSize when it has more; OnClose gets that error, and OnMessage
\* is not invoked.
C10_FragmentedControlFails ==
    [][(Dispatching /\ FragmentedControl(Head(inbox)))
          => LET e == IF Len(Head(inbox).payload) > maxControlFrameSize
                      THEN "ErrMaxControlFrameSize"
                      ELSE "ErrNOTBeFragmented"
             IN /\ lastCalls' = <<OnCloseCall(e)>>
                /\ lastErr' \in {e, "panic"}]_vars

\* a fragmented control frame was refused with NotBeFragmented and Close(1002)
C10_Witness ==
    /\ lastErr = "ErrNOTBeFragmented"
    /\ lastCalls = <<OnCloseCall("ErrNOTBeFragmented")>>
    /\ lastWrite.op = Close
    /\ lastWrite.payload = statusCodeToBytes(ProtocolError)
\* a Close frame that passes validation: whole, no reserved bits, and a payload
\* that is empty or holds a permitted status code and a reason in UTF-8
ValidClose(f) ==
    /\ f.opcode = Close /\ f.fin /\ NoRsv(f)
    /\ Len(f.payload) <= maxControlFrameSize
    /\ \/ f.payload = <<>>
       \/ /\ Len(f.payload) >= 2
          /\ validCode(Uint16BE(f.payload))
          /\ Utf8Valid(SubSeq(f.payload, 3, Len(f.payload)))

\* the write processCallback makes for frame f, if it makes one, succeeds
WriteDone(f) == processCallback(f, "nil").wop >= 0 => lastWrite'.err = "nil"

\* C11: for a Close frame that passes validation the dispatcher writes one Close
\* frame whose payload is the payload received and, the write done, invokes
\* OnClose (once, and nothing else).
C11_CloseEchoed ==
    [][(Dispatching /\ ValidClose(Head(inbox)) /\ WriteDone(Head(inbox)))
          => /\ lastWrite'.op = Close
             /\ lastWrite'.payload = Head(inbox).payload
             /\ Len(lastCalls') = 1
             /\ lastCalls'[1].cb = "OnClose"]_vars

\* frame f completes a Text message whose payload, inflated when the message is
\* compressed, is not UTF-8: a single frame, or the last fragment
InvalidText(f) ==
    /\ ~f.rsv2 /\ ~f.rsv3
    /\ IF wireMsg = <<>>
       THEN /\ f.opcode = Text /\ f.fin
            /\ f.rsv1 => (cfg.decompression /\ decodeOk(f.payload))
            /\ ~Utf8Valid(IF f.rsv1 THEN decode(f.payload) ELSE f.payload)
       ELSE /\ wireMsg[1].opcode = Text
            /\ f.opcode = Continuation /\ f.fin /\ ~f.rsv1
            /\ Compressed => decodeOk(Concat(wireMsg) \o f.payload)
            /\ ~Utf8Valid(MessagePayload(f))

\* C12: on a connection without earlier errors that checks UTF-8, a Text message
\* whose payload is not UTF-8 makes the dispatcher write a Close frame with
\* status 1007 and fail with ErrTextNotUTF8, and OnMessage is not invoked.
C12_InvalidTextCloses1007 ==
    [][(Dispatching /\ clean /\ cfg.utf8Check /\ InvalidText(Head(inbox)))
          => /\ lastWrite'.op = Close
             /\ lastWrite'.payload = statusCodeToBytes(1007)
             /\ lastErr' = "ErrTextNotUTF8"
             /\ ~HasOnMessage(lastCalls')]_vars

\* a Ping or Pong frame that is valid: whole, no reserved bits, at most 125 bytes
ValidControl(f, op) ==
    /\ f.opcode = op /\ f.fin /\ NoRsv(f)
    /\ Len(f.payload) <= maxControlFrameSize

\* C13: a valid Ping frame makes the dispatcher invoke OnMessage with the opcode
\* Ping and the payload of the frame, with replyPing on (the Pong written) and
\* with replyPing off.
C13_PingDelivered ==
    [][(/\ Dispatching
        /\ ValidControl(Head(inbox), Ping)
        /\ WriteDone(Head(inbox)))
          => lastCalls' = <<OnMessageCall(Ping, Head(inbox).payload)>>]_vars

\* C14: a valid Pong frame invokes no callback when ignorePong is on, and
\* OnMessage with the opcode Pong and the payload of the frame when it is off.
C14_PongDelivered ==
    [][(Dispatching /\ ValidControl(Head(inbox), Pong))
          => lastCalls' = IF cfg.ignorePong THEN <<>>
                          ELSE <<OnMessageCall(Pong, Head(inbox).payload)>>]_vars

\* the frames the reserved bits rule out: RSV2 or RSV3, or RSV1 on a control
\* frame or while decompression is off
BadRsv(f) ==
    \/ f.rsv2
    \/ f.rsv3
    \/ f.rsv1 /\ (IsControl(f.opcode) \/ ~cfg.decompression)

\* C15: a frame the reserved bits rule out is refused as a protocol error, also
\* in the middle of a fragmented message: it does not reach OnMessage, and the
\* dispatcher, the Close frame written, returns a protocol error.
C15_BadRsvRejected ==
    [][(Dispatching /\ BadRsv(Head(inbox)) /\ WriteDone(Head(inbox)))
          => /\ ~HasOnMessage(lastCalls')
             /\ lastErr' \in ProtocolErrors]_vars
\* add was called for connection c and del was not
Registered(c) == poolConn[c].made /\ ~poolConn[c].deleted

\* where the reactors' maps hold connection c: reactor index and fd
HeldAt(c) == {e \in (0..(NumLoops - 1)) \X PoolFds : loops[e[1]][e[2]] = c}

\* C16: whatever add and del calls were made, a connection that was added and
\* not deleted is in the map of exactly one reactor, the one with index
\* fd mod N, under its fd, and getConn(fd) returns it; a deleted connection is
\* in no map; no connection is in two maps.
C16_OneReactorPerConn ==
    \A c \in PoolConns :
        /\ Registered(c)
              => /\ HeldAt(c) = {<<poolConn[c].fd % NumLoops, poolConn[c].fd>>}
                 /\ getConnOf(poolConn[c].fd) = c
        /\ poolConn[c].deleted => HeldAt(c) = {}
        /\ Cardinality(HeldAt(c)) <= 1
\* C17: when Dial returns an error after the TCP connection was established,
\* the socket is closed and no Conn is returned.
C17_DialErrorClosesSocket ==
    (dpc = "done" /\ derr # "nil" /\ sock # "none")
        => (sock = "closed" /\ dc = "nil")

\* the response was valid and resetting the deadline failed: Dial returned the
\* error with the socket closed
C17_Witness ==
    /\ dpc = "done"
    /\ rsp # NoRsp
    /\ validateRsp(rsp) = "nil"
    /\ derr = "IOError"
    /\ sock = "closed"
    /\ dc = "nil"

\* the response negotiates permessage-deflate with server_no_context_takeover
\* and/or client_no_context_takeover
Negotiates(r) ==
    \E i \in DOMAIN r.Extensions :
        /\ r.Extensions[i].name = "permessage-deflate"
        /\ r.Extensions[i].params # {}

\* C18: after a handshake that succeeded, compression and decompression are
\* both on when the extension was offered and the response negotiates
\* permessage-deflate without context takeover, and both off when the response
\* does not negotiate it; they are equal in every case.
C18_CompressionNegotiated ==
    (dpc = "done" /\ derr = "nil")
        => /\ dcfg.compression = dcfg.decompression
           /\ (offered /\ Negotiates(rsp))
                 => (dcfg.compression /\ dcfg.decompression)
           /\ ~Negotiates(rsp) => (~dcfg.compression /\ ~dcfg.decompression)
\* C19: the parser refuses a 64-bit length whose most significant bit is set:
\* in no state is the parsed payloadLen negative.
C19_PayloadLenNotNegative == rh.PayloadLen >= 0
\* C20: when teardown invokes OnClose, the connection is out of its reactor's
\* map, its fd is closed, and its parent pointer is cleared.
C20_TeardownOrder ==
    [][onClose'.closeInner > onClose.closeInner
          => (~getConn /\ ~fdOpen /\ ~parent)]_vars
\* the causes of a teardown that are I/O errors or error / hangup events
IOCauses == {"hangup", "EOF", "EPIPE", "EBADF"}

\* C21: when a teardown that an I/O error (write error, EOF) or an error /
\* hangup event started invokes OnClose, the callback gets an error, not nil.
C21_OnCloseGetsCause ==
    [][\A t \in Threads :
          (pc[t] = "ci_once" /\ pc'[t] = "ci_parent" /\ cause[t] \in IOCauses)
             => closeArg' # "nil"]_vars
\* C22: whatever Write and flushOrClose calls were made and however the kernel
\* took the bytes, the bytes the kernel accepted followed by wbuf are the
\* buffers passed to Write, in call order.
C22_WriteStreamIntegrity == ~panicked => kernelOut \o wbuf = given
\* C23: bytes a write left in wbuf are eventually all sent, wbuf being empty,
\* or the connection is closed; and while the connection is open, bytes in
\* wbuf mean the fd is armed for write.
C23_BufferedWritesFlushed ==
    /\ [](( closed = 0 /\ FdUsable /\ ~panicked /\ wbuf # <<>>) => epollOut)
    /\ (wbuf # <<>>) ~> ((wbuf = <<>> /\ kernelOut = given) \/ closed = 1)
\* C24: when the poll function has returned, the handler of every event of the
\* batch ran, whatever the handlers of the events before it did, and the poll
\* function returned no error.
C24_ErrorConfined ==
    (ppc = "idle" /\ pollRet # "none")
        => (handled = 1..Len(batch) /\ pollRet = "nil")
\* the bytes a header still needs after its first two, by the second byte
StillNeeded(b) ==
    (IF b % 128 = 126 THEN 2 ELSE IF b % 128 = 127 THEN 8 ELSE 0)
    + (IF b >= 128 THEN 4 ELSE 0)

\* C25: a readHeader call in state HeaderStart with two unread bytes or more
\* consumes the two header bytes and leaves HeaderStart for HeaderExtAndMask
\* with the number of bytes still needed, whatever the two bytes are; with
\* fewer unread bytes it changes neither the state nor the read index.
C25_HeaderStartConsumesTwo ==
    [][(pc[Reactor] = "readHeader" /\ pc'[Reactor] # "readHeader"
           /\ curState = "frameStateHeaderStart")
          => IF Len(rbuf) - ri >= 2
             THEN /\ ri' = ri + 2
                  /\ readHeaderStart(Parser).curState = "frameStateHeaderPayloadAndMask"
                  /\ curState' \in {"frameStateHeaderPayloadAndMask", "frameStatePayload"}
                  /\ haveSize' = StillNeeded(rbuf[ri + 2])
             ELSE ri' = ri /\ curState' = curState]_vars
\* C26: while add runs beside the poll loop, no event is dispatched for an fd
\* that is armed for read and not yet in the reactor's map, so the reactor
\* never closes the fd of a connection being added as orphaned.
C26_AddNeverOrphaned ==
    [][\A f \in PoolFds :
          (f \in readArmed /\ nEvents' = nEvents + 1 /\ kfd[f]) => kfd'[f]]_vars
\* C27: whenever a teardown runs MultiEventLoop.del, the fd is not -1 and del
\* did not run for the connection before (the connection is still in its
\* reactor's map): the teardown body runs at most once and never computes a
\* negative reactor index.
C27_TeardownBodyOnce ==
    [][\A t \in Threads :
          (pc[t] = "ci_del"
             /\ (pc'[t] = "ci_fd" \/ (panic = "none" /\ panic' = "index out of range")))
          => (fd # 0 - 1 /\ delIndex >= 0 /\ getConn)]_vars
\* C28: a turn of the read loop that finds rbuf full makes room, moves the
\* parser on or returns: it never leaves everything as it was, which is what
\* would have the loop issue zero-length reads for ever.
C28_ReadLoopTerminates ==
    [][(pc[Reactor] = "full" /\ pc'[Reactor] = "read")
          => \/ rcap' - Len(rbuf') > 0
             \/ ri' # ri
             \/ curState' # curState]_vars
\* the headers a handshake request carries once each
Required == {"Upgrade", "Connection", "Sec-WebSocket-Key", "Sec-WebSocket-Version"}

\* C29: every request handshake builds carries one Sec-WebSocket-Key, one
\* Upgrade, one Connection and one Sec-WebSocket-Version, and its key is the
\* key validateRsp checks the response against, also on a later call with the
\* same DialOption.
C29_OneKeyPerRequest ==
    (hcalls > 0 /\ hres # "ErrScheme")
        => /\ \A h \in Required : Len(req[h]) = 1
           /\ req["Sec-WebSocket-Key"] = <<secWebSocket>>
\* C30: WriteFrameOnlyIoUring never stores under a seq that has an entry, and
\* a call that returns an error leaves the pending map as it was and has put
\* its buffer back to the pool once.
C30_UringWriteCleansUp ==
    [][wcalls' = wcalls + 1
          => /\ \A s \in Seqs : stateM[s] # 0 => stateM'[s] = stateM[s]
             /\ uerr' # "nil" => (stateM' = stateM /\ puts'[wcalls'] = 1)]_vars
=============================================================================
